---------------------------- MODULE Spec2Model ----------------------------
(***************************************************************************)
(* SpotMAX spot detection and quantification core (spotmax/transformations *)
(* and spotmax/pipe): coordinate transform layer, spheroid mask builder    *)
(* and object aggregator, as state machines over small integer volumes.    *)
(*                                                                         *)
(* Arrays are records [shape |-> <<..>>, ...]; indices are 0-based as in   *)
(* numpy.  Radii are rationals <<num, den>> (num >= 0, den > 0).  Each     *)
(* component has its own specification; the variables of the other         *)
(* components stay idle in it.                                             *)
(***************************************************************************)
EXTENDS Integers, Sequences, FiniteSets, TLC

VARIABLES
    \* get_slices_local_into_global_3D_arr
    zyx_center, global_shape, local_shape,
    slice_global_to_local, slice_crop_local, pcSlices,
    \* spheroid mask builder: spot_detection and
    \* spots_calc_features_and_filter
    spots_zyx_radii_pxl, detect_image_ndim, spot_footprint,
    min_size_spheroid_mask, pcMask,
    \* coordinate frames: spot_detection (return_df),
    \* spots_calc_features_and_filter and compute_spots_features
    lab, spots_coords, delta_tol, df_spots_coords, expanded_objs, keys,
    dfs_features, pcCoords,
    \* object aggregator: aggregate_objs and deaggregate_img
    img_data, zyx_tolerance, lineage_table, aggregated_img, aggregated_lab,
    x_slice_idxs, deaggr_img, pcAggr,
    \* transformations.normalise_img
    norm_img, norm_mask, raise_if_norm_zero, norm_value, norm_out, pcNorm,
    \* one object of spots_calc_features_and_filter: the goodness-of-peak
    \* loop around _compute_obj_spots_features
    obj_image, local_spots_img, local_ref_ch_mask, local_ref_ch_img,
    optimise_for_high_spot_density, dist_transform_spheroid,
    get_backgr_from_inside_ref_ch_mask, gop_filtering_thresholds,
    df_obj_spots_det, df_obj_spots_gop, backgr_mask, pass_input,
    pass_output, ttest_inputs, gop_i, gop_info, dfs_spots_det, dfs_spots_gop, first_run,
    pcGop,
    \* pipe.spotfit: the loop over the objects and the drop-peaks-too-close
    \* loop of each object
    df_spots, spots_img, drop_peaks_too_close, verbose, obj_i, df_spots_obj,
    fit_i, prev_num_spots, num_spots, df_spotFIT_ID, dfs_spots_spotfit,
    dfs_spots_spotfit_iter0, fit_keys, filtered_spots_info, logged, pcFit,
    \* pipe.spot_detection and transformations.from_df_spots_objs_to_spots_lab
    image_shape, spots_segmantic_segm, detection_method, return_spots_mask,
    detected_coords, spots_masks, spots_lab, pcDet,
    \* pipe.spots_calc_features_and_filter: the loop over the objects of a
    \* frame
    image, rp_i, frame_last_spot_id, frame_obj_idx, pcFrame,
    \* qtworkers.loadChunkDataWorker and the thread that calls setArgs
    wait, exit, current_idx, axis, load_args, chunks_loaded, requested,
    pcWorker, pcSetArgs,
    \* transformations.index_aggregated_segm_into_input_lab and the files
    \* of the working directory
    aggregated_segm, keep_objects_touching_lab_intact, subobj_labels, files,
    pcIndex

varsSlices == <<zyx_center, global_shape, local_shape,
                slice_global_to_local, slice_crop_local, pcSlices>>

varsMask == <<spots_zyx_radii_pxl, detect_image_ndim, spot_footprint,
              min_size_spheroid_mask, pcMask>>

varsCoords == <<lab, spots_coords, delta_tol, df_spots_coords, expanded_objs,
                keys, dfs_features, pcCoords>>

varsAggr == <<img_data, zyx_tolerance, lineage_table, aggregated_img,
              aggregated_lab, x_slice_idxs, deaggr_img, pcAggr>>

varsNorm == <<norm_img, norm_mask, raise_if_norm_zero, norm_value, norm_out,
              pcNorm>>

varsCore == <<varsSlices, varsMask, varsCoords, varsAggr>>

varsGop == <<obj_image, local_spots_img, local_ref_ch_mask,
             local_ref_ch_img, optimise_for_high_spot_density,
             dist_transform_spheroid, get_backgr_from_inside_ref_ch_mask,
             gop_filtering_thresholds, df_obj_spots_det, df_obj_spots_gop,
             backgr_mask, pass_input, pass_output, ttest_inputs, gop_i,
             gop_info, dfs_spots_det, dfs_spots_gop, first_run, pcGop>>

varsFit == <<df_spots, spots_img, drop_peaks_too_close, verbose, obj_i,
             df_spots_obj, fit_i, prev_num_spots, num_spots, df_spotFIT_ID,
             dfs_spots_spotfit, dfs_spots_spotfit_iter0, fit_keys,
             filtered_spots_info, logged, pcFit>>

varsDet == <<image_shape, spots_segmantic_segm, detection_method,
             return_spots_mask, detected_coords, spots_masks, spots_lab,
             pcDet>>

varsFrame == <<image, rp_i, frame_last_spot_id, frame_obj_idx, pcFrame>>

varsLoad == <<wait, exit, current_idx, axis, load_args, chunks_loaded,
              requested, pcWorker, pcSetArgs>>

varsIndex == <<aggregated_segm, keep_objects_touching_lab_intact,
               subobj_labels, files, pcIndex>>

varsLate == <<varsDet, varsFrame, varsLoad, varsIndex>>

varsPipe == <<varsNorm, varsGop, varsFit, varsLate>>

vars == <<varsCore, varsPipe>>

-----------------------------------------------------------------------------
(* A component that takes no part in a specification stays idle            *)

IdleSlices ==
    /\ zyx_center = <<>>
    /\ global_shape = <<>>
    /\ local_shape = <<>>
    /\ slice_global_to_local = <<>>
    /\ slice_crop_local = <<>>
    /\ pcSlices = "idle"

IdleMask ==
    /\ detect_image_ndim = 0
    /\ spot_footprint = <<>>
    /\ min_size_spheroid_mask = <<>>
    /\ pcMask = "idle"

IdleAggr ==
    /\ img_data = <<>>
    /\ zyx_tolerance = <<>>
    /\ lineage_table = <<>>
    /\ aggregated_img = <<>>
    /\ aggregated_lab = <<>>
    /\ x_slice_idxs = <<>>
    /\ deaggr_img = <<>>
    /\ pcAggr = "idle"

IdleCoordTables ==
    /\ spots_coords = <<>>
    /\ delta_tol = <<>>
    /\ df_spots_coords = <<>>
    /\ expanded_objs = <<>>
    /\ keys = <<>>
    /\ dfs_features = <<>>
    /\ pcCoords = "idle"

IdleCoords ==
    /\ lab = <<>>
    /\ spots_coords = <<>>
    /\ delta_tol = <<>>
    /\ df_spots_coords = <<>>
    /\ expanded_objs = <<>>
    /\ keys = <<>>
    /\ dfs_features = <<>>
    /\ pcCoords = "idle"

IdleNorm ==
    /\ norm_img = <<>>
    /\ norm_mask = {}
    /\ raise_if_norm_zero = FALSE
    /\ norm_value = <<>>
    /\ norm_out = <<>>
    /\ pcNorm = "idle"

IdleGop ==
    /\ obj_image = <<>>
    /\ local_spots_img = <<>>
    /\ local_ref_ch_mask = <<>>
    /\ local_ref_ch_img = <<>>
    /\ optimise_for_high_spot_density = FALSE
    /\ dist_transform_spheroid = <<>>
    /\ get_backgr_from_inside_ref_ch_mask = FALSE
    /\ gop_filtering_thresholds = <<>>
    /\ df_obj_spots_det = <<>>
    /\ df_obj_spots_gop = <<>>
    /\ backgr_mask = <<>>
    /\ pass_input = <<>>
    /\ pass_output = <<>>
    /\ ttest_inputs = <<>>
    /\ gop_i = 0
    /\ gop_info = <<>>
    /\ dfs_spots_det = <<>>
    /\ dfs_spots_gop = <<>>
    /\ first_run = <<>>
    /\ pcGop = "idle"

IdleFit ==
    /\ df_spots = <<>>
    /\ spots_img = <<>>
    /\ drop_peaks_too_close = FALSE
    /\ verbose = FALSE
    /\ obj_i = 0
    /\ df_spots_obj = <<>>
    /\ fit_i = 0
    /\ prev_num_spots = 0
    /\ num_spots = <<>>
    /\ df_spotFIT_ID = <<>>
    /\ dfs_spots_spotfit = <<>>
    /\ dfs_spots_spotfit_iter0 = <<>>
    /\ fit_keys = <<>>
    /\ filtered_spots_info = <<>>
    /\ logged = <<>>
    /\ pcFit = "idle"

IdleDet ==
    /\ image_shape = <<>>
    /\ spots_segmantic_segm = {}
    /\ detection_method = ""
    /\ return_spots_mask = FALSE
    /\ detected_coords = <<>>
    /\ spots_masks = <<>>
    /\ spots_lab = <<>>
    /\ pcDet = "idle"

IdleFrame ==
    /\ image = <<>>
    /\ rp_i = 0
    /\ frame_last_spot_id = 0
    /\ frame_obj_idx = 0
    /\ pcFrame = "idle"

IdleLoad ==
    /\ wait = FALSE
    /\ exit = FALSE
    /\ current_idx = 0
    /\ axis = 0
    /\ load_args = <<>>
    /\ chunks_loaded = <<>>
    /\ requested = 0
    /\ pcWorker = "idle"
    /\ pcSetArgs = "idle"

IdleIndex ==
    /\ aggregated_segm = <<>>
    /\ keep_objects_touching_lab_intact = FALSE
    /\ subobj_labels = <<>>
    /\ files = <<>>
    /\ pcIndex = "idle"

IdleLate == IdleDet /\ IdleFrame /\ IdleLoad /\ IdleIndex

IdlePipe == IdleNorm /\ IdleGop /\ IdleFit /\ IdleLate

IdleCore ==
    /\ IdleSlices
    /\ spots_zyx_radii_pxl = <<>>
    /\ IdleMask
    /\ IdleCoords
    /\ IdleAggr

-----------------------------------------------------------------------------
(* Bounds of the model                                                     *)

\* Largest extent of the global volume on one axis (slices specification)
MaxDim == 2
\* Largest extent of the local mask on one axis (slices specification)
MaxMask == 3
\* Radii are the halves 0/2, 1/2, ..., MaxRadNum/2 (pixels)
MaxRadNum == 5
\* Shape (CoordZ, CoordYX, CoordYX) of the label volume of the coordinate
\* frames specification, and its radii 0/2, ..., CoordRadNum/2
CoordZ == 2
CoordYX == 3
CoordRadNum == 2

-----------------------------------------------------------------------------
(* Python / numpy primitives                                               *)

Max2(a, b) == IF a >= b THEN a ELSE b
Min2(a, b) == IF a <= b THEN a ELSE b
Abs(a) == IF a < 0 THEN -a ELSE a

\* The function f as an explicit table, its values computed once
Table(f) == f @@ <<>>

\* F applied to the value of e, computed once
Bind(e, F(_)) == CHOOSE y \in {F(x) : x \in {e}} : TRUE

\* Python's None and a present integer
None == [none |-> TRUE]
Some(n) == [none |-> FALSE, val |-> n]

\* int(a/2) for a Python number a: true division, then truncation toward 0
IntHalf(a) == IF a >= 0 THEN a \div 2 ELSE -((-a) \div 2)

\* slice(start, stop)
PySlice(start, stop) == [start |-> start, stop |-> stop]

\* One bound of a slice resolved against an axis of length n, as
\* slice.indices(n) does for step 1: None takes the default, a negative
\* value counts from the end, and the result is clamped to 0..n.
PyBound(b, n, default) ==
    IF b.none THEN default
    ELSE IF b.val < 0 THEN Max2(b.val + n, 0)
    ELSE Min2(b.val, n)

\* The indices that arr[slice] selects on an axis of length n
PySliceIndices(s, n) ==
    LET lo == PyBound(s.start, n, 0)
        hi == PyBound(s.stop, n, n)
    IN {i \in 0..(n - 1) : lo <= i /\ i < hi}

PySliceLen(s, n) == Cardinality(PySliceIndices(s, n))

-----------------------------------------------------------------------------
(* Rational radii <<num, den>>                                             *)

\* np.ceil of a non-negative rational
RCeil(r) == -((-r[1]) \div r[2])
\* The mutant of RHalf: the radius is not halved
RNotHalved(r) == r
\* val/2
RHalf(r) == <<r[1], 2 * r[2]>>
\* val*2
RDouble(r) == <<2 * r[1], r[2]>>
RIsPos(r) == r[1] > 0
Sq(a) == a * a

\* Radii (z, y, x) in pixels
Radii(maxNum) == {<<n, 2>> : n \in 0..maxNum}

-----------------------------------------------------------------------------
(* transformations.get_local_spheroid_mask                                 *)

\* The mutant of InSpheroid: the x grid starts one voxel late,
\* `np.ogrid[..., -wh+1:wh+2]`
InSpheroidSkewed(z, y, x, zr, yr) ==
    IF ~RIsPos(yr) THEN FALSE
    ELSE IF RIsPos(zr)
    THEN   Sq(zr[1]) * Sq(yr[2]) * (Sq(x + 1) + Sq(y))
         + Sq(yr[1]) * Sq(zr[2]) * Sq(z) <= Sq(yr[1]) * Sq(zr[1])
    ELSE Sq(yr[2]) * (Sq(x + 1) + Sq(y)) <= Sq(yr[1])

\* `(x**2 + y**2)/(yr**2) + z**2/(zr**2) <= 1` when zr > 0, else
\* `(x**2 + y**2)/(yr**2) <= 1`, in exact arithmetic (both sides multiplied
\* by the squared radii).  With yr = 0 the division gives inf or nan and the
\* comparison is False.
InSpheroid(z, y, x, zr, yr) ==
    IF ~RIsPos(yr) THEN FALSE
    ELSE IF RIsPos(zr)
    THEN   Sq(zr[1]) * Sq(yr[2]) * (Sq(x) + Sq(y))
         + Sq(yr[1]) * Sq(zr[2]) * Sq(z) <= Sq(yr[1]) * Sq(zr[1])
    ELSE Sq(yr[2]) * (Sq(x) + Sq(y)) <= Sq(yr[1])

\* `mask.max(axis=0)[np.newaxis]`
MaxProjectZ(mask) ==
    [shape |-> <<1, mask.shape[2], mask.shape[3]>>,
     true |-> {<<0, idx[2], idx[3]>> : idx \in mask.true}]

\* The mutant of CollapseDepth1: a depth of 1 keeps its three z-slices
KeepDepth1(d, mask) == mask

\* `if d == 1: mask = mask.max(axis=0)[np.newaxis]`
CollapseDepth1(d, mask) == IF d = 1 THEN MaxProjectZ(mask) ELSE mask

get_local_spheroid_mask(radii) ==
    LET zr == radii[1]
        yr == radii[2]
        wh == RCeil(yr)
        d == RCeil(zr)
        \* np.ogrid[-d:d+1, -wh:wh+1, -wh:wh+1]: index i holds offset i - d
        grid == {<<i, j, k>> : i \in 0..(2 * d), j \in 0..(2 * wh),
                               k \in 0..(2 * wh)}
        mask == [shape |-> <<2 * d + 1, 2 * wh + 1, 2 * wh + 1>>,
                 true |-> {idx \in grid :
                             InSpheroid(idx[1] - d, idx[2] - wh, idx[3] - wh,
                                        zr, yr)}]
    IN CollapseDepth1(d, mask)

\* The axes np.squeeze keeps: those longer than 1
KeptAxes(shape) == {a \in 1..Len(shape) : shape[a] # 1}

\* The subsequence of t at the axes in kept, in order
RECURSIVE Pick(_, _, _)
Pick(t, kept, a) ==
    IF a > Len(t) THEN <<>>
    ELSE (IF a \in kept THEN <<t[a]>> ELSE <<>>) \o Pick(t, kept, a + 1)

\* np.squeeze
Squeeze(mask) ==
    LET kept == KeptAxes(mask.shape)
    IN [shape |-> Pick(mask.shape, kept, 1),
        true |-> {Pick(idx, kept, 1) : idx \in mask.true}]

\* `spot_footprint.max(axis=0)` of a 3D footprint
MaxProjectFirstAxis(mask) ==
    [shape |-> Tail(mask.shape),
     true |-> {Tail(idx) : idx \in mask.true}]

\* pipe.spot_detection, lines 1003-1031: the footprint of the local-maxima
\* search when no footprint is passed in, for an image with ndim axes
DetectionFootprint(radii, ndim) ==
    LET zyx_radii_pxl == [a \in 1..3 |-> RHalf(radii[a])]
        footprint == Squeeze(get_local_spheroid_mask(zyx_radii_pxl))
    IN IF ndim = 2 /\ Len(footprint.shape) = 3
       THEN MaxProjectFirstAxis(footprint)
       ELSE footprint

InitMask ==
    /\ spots_zyx_radii_pxl \in [1..3 -> Radii(MaxRadNum)]
    /\ detect_image_ndim \in {2, 3}
    /\ spot_footprint = <<>>
    /\ min_size_spheroid_mask = <<>>
    /\ pcMask = "spot_detection"
    /\ IdleSlices
    /\ IdleCoords
    /\ IdleAggr
    /\ IdlePipe

\* pipe.spot_detection builds the footprint of the peak search
SpotDetectionFootprint ==
    /\ pcMask = "spot_detection"
    /\ spot_footprint' =
          DetectionFootprint(spots_zyx_radii_pxl, detect_image_ndim)
    /\ pcMask' = "spots_calc_features_and_filter"
    /\ UNCHANGED <<spots_zyx_radii_pxl, detect_image_ndim,
                   min_size_spheroid_mask>>
    /\ UNCHANGED <<varsSlices, varsCoords, varsAggr, varsPipe>>

\* pipe.spots_calc_features_and_filter builds the per-spot aggregation mask
CalcSpheroidMask ==
    /\ pcMask = "spots_calc_features_and_filter"
    /\ min_size_spheroid_mask' = get_local_spheroid_mask(spots_zyx_radii_pxl)
    /\ pcMask' = "done"
    /\ UNCHANGED <<spots_zyx_radii_pxl, detect_image_ndim, spot_footprint>>
    /\ UNCHANGED <<varsSlices, varsCoords, varsAggr, varsPipe>>

NextMask == SpotDetectionFootprint \/ CalcSpheroidMask

SpecMask == InitMask /\ [][NextMask]_vars

-----------------------------------------------------------------------------
(* C2                                                                      *)

\* The ellipsoid equation (x^2+y^2)/yr^2 + z^2/zr^2 <= 1 at an integer
\* offset, for yr > 0; its 2D projection when zr = 0
EllipsoidEq(z, y, x) ==
    LET zn == spots_zyx_radii_pxl[1][1]
        zd == spots_zyx_radii_pxl[1][2]
        yn == spots_zyx_radii_pxl[2][1]
        yd == spots_zyx_radii_pxl[2][2]
    IN IF zn = 0
       THEN (x * x + y * y) * yd * yd <= yn * yn
       ELSE (x * x + y * y) * yd * yd * zn * zn + z * z * zd * zd * yn * yn
              <= yn * yn * zn * zn

CeilZ == RCeil(spots_zyx_radii_pxl[1])
CeilY == RCeil(spots_zyx_radii_pxl[2])

\* The voxels of a (D, H, W) array whose offset from the middle index
\* satisfies the ellipsoid equation
EllipsoidVoxels(D, H, W) ==
    {idx \in (0..(D - 1)) \X (0..(H - 1)) \X (0..(W - 1)) :
        EllipsoidEq(idx[1] - (D \div 2), idx[2] - (H \div 2),
                    idx[3] - (W \div 2))}

\* C2 as stated: for yr > 0 the mask has shape
\* (2*ceil(zr)+1, 2*ceil(yr)+1, 2*ceil(yr)+1), a single z-slice only when
\* zr = 0, and a voxel is true exactly when its offset from the center
\* satisfies the ellipsoid equation.
C2_ShapeAsStated ==
    (pcMask = "done" /\ RIsPos(spots_zyx_radii_pxl[2])) =>
        /\ min_size_spheroid_mask.shape =
              <<2 * CeilZ + 1, 2 * CeilY + 1, 2 * CeilY + 1>>
        /\ min_size_spheroid_mask.shape[1] = 1 => spots_zyx_radii_pxl[1][1] = 0
        /\ min_size_spheroid_mask.true =
              EllipsoidVoxels(2 * CeilZ + 1, 2 * CeilY + 1, 2 * CeilY + 1)

\* C2, amended: for yr > 0 the mask has shape
\* (2*ceil(zr)+1, 2*ceil(yr)+1, 2*ceil(yr)+1) when ceil(zr) >= 2 and is the
\* single z-slice (1, 2*ceil(yr)+1, 2*ceil(yr)+1) when ceil(zr) <= 1, that is
\* for zr = 0 and for 0 < zr <= 1; a voxel is true exactly when its offset
\* from the center satisfies the ellipsoid equation (in the single slice the
\* z offset is 0).
C2_ShapeAndVoxels ==
    (pcMask = "done" /\ RIsPos(spots_zyx_radii_pxl[2])) =>
        LET D == IF CeilZ <= 1 THEN 1 ELSE 2 * CeilZ + 1
            W == 2 * CeilY + 1
        IN /\ min_size_spheroid_mask.shape = <<D, W, W>>
           /\ min_size_spheroid_mask.true = EllipsoidVoxels(D, W, W)

\* A mask for 0 < zr <= 1 (one z-slice) and one for zr > 1 with voxels on
\* and off the ellipsoid are both built
C2_Witness ==
    /\ pcMask = "done"
    /\ spots_zyx_radii_pxl[1] = <<2, 2>>
    /\ spots_zyx_radii_pxl[2] = <<3, 2>>
    /\ min_size_spheroid_mask.shape = <<1, 5, 5>>
    /\ <<0, 2, 3>> \in min_size_spheroid_mask.true
    /\ <<0, 0, 0>> \notin min_size_spheroid_mask.true

-----------------------------------------------------------------------------
(* C3                                                                      *)

\* The offset (z, y, x) from the middle index of a voxel of an array with at
\* most three axes; the axes of a squeezed array are the last ones
\* (a 2D footprint lies in the y, x plane, its z offset is 0)
Offset3D(shape, idx) ==
    LET n == Len(shape)
    IN [a \in 1..3 |->
          IF a <= 3 - n THEN 0
          ELSE idx[a - (3 - n)] - (shape[a - (3 - n)] \div 2)]

OffsetsOf(mask) == {Offset3D(mask.shape, idx) : idx \in mask.true}

\* All the index tuples of an array of the given shape
RECURSIVE IndexSet(_)
IndexSet(shape) ==
    IF Len(shape) = 0 THEN {<<>>}
    ELSE {<<i>> \o t : i \in 0..(shape[1] - 1), t \in IndexSet(Tail(shape))}

\* C3 as stated: the footprint of the local-maxima search is the same mask
\* (same shape, same true voxels, up to the squeezed axes) as the per-spot
\* aggregation mask.
C3_SameMaskAsStated ==
    (pcMask = "done" /\ RIsPos(spots_zyx_radii_pxl[2])) =>
        spot_footprint = Squeeze(min_size_spheroid_mask)

\* C3, amended: the footprint is built by the same builder from HALF the
\* expected radii: a voxel at offset o from the footprint's center is true
\* exactly when 2*o satisfies the ellipsoid equation of the full radii, and
\* so every true voxel of the footprint is, at the same offset, a true voxel
\* of the aggregation mask (the footprint is contained in the aggregation
\* mask, it is not the same mask).
C3_FootprintIsHalfScale ==
    (pcMask = "done" /\ RIsPos(spots_zyx_radii_pxl[2])) =>
        /\ Len(spot_footprint.shape) \in {2, 3}
        /\ \A idx \in IndexSet(spot_footprint.shape) :
             LET o == Offset3D(spot_footprint.shape, idx)
             IN idx \in spot_footprint.true
                  <=> EllipsoidEq(2 * o[1], 2 * o[2], 2 * o[3])
        /\ OffsetsOf(spot_footprint) \subseteq OffsetsOf(min_size_spheroid_mask)

\* Radii (2.5, 2, 2): the footprint is 3D, has more than its center voxel
\* and is strictly smaller than the aggregation mask
C3_Witness ==
    /\ pcMask = "done"
    /\ spots_zyx_radii_pxl = <<<<5, 2>>, <<4, 2>>, <<4, 2>>>>
    /\ detect_image_ndim = 3
    /\ Len(spot_footprint.shape) = 3
    /\ Cardinality(spot_footprint.true) > 1
    /\ OffsetsOf(spot_footprint) # OffsetsOf(min_size_spheroid_mask)

-----------------------------------------------------------------------------
(* transformations.get_slices_local_into_global_3D_arr                     *)

\* `if len(shape) == 2: shape = (1, *shape)`
To3DShape(shape) == IF Len(shape) = 2 THEN <<1>> \o shape ELSE shape

\* The mutant of AxisRadius: the radius rounded up instead of truncated
AxisRadiusCeil(_d) == (_d + 1) \div 2

\* `_r = int(_d/2)`
AxisRadius(_d) == IntHalf(_d)

\* One iteration of the loop over the axes: the pair
\* (slice(_min, _max), slice(_min_crop, _max_crop))
AxisSlices(_c, _d, _D) ==
    LET _r == AxisRadius(_d)
        _min0 == _c - _r
        _max0 == _min0 + _d
        _min_crop == IF _min0 < 0 THEN Some(Abs(_min0)) ELSE None
        _min == IF _min0 < 0 THEN 0 ELSE _min0
        _max_crop == IF _max0 > _D THEN Some(_D - _max0) ELSE None
        _max == IF _max0 > _D THEN _D ELSE _max0
    IN [glob |-> PySlice(Some(_min), Some(_max)),
        loc |-> PySlice(_min_crop, _max_crop)]

\* zip() stops at the shortest of its arguments
ZipLen(c, l, g) == Min2(Len(c), Min2(Len(l), Len(g)))

get_slices_local_into_global_3D_arr(center, gshape, lshape) ==
    LET g == To3DShape(gshape)
        l == To3DShape(lshape)
        n == ZipLen(center, l, g)
    IN [slice_global_to_local |->
            [a \in 1..n |-> AxisSlices(center[a], l[a], g[a]).glob],
        slice_crop_local |->
            [a \in 1..n |-> AxisSlices(center[a], l[a], g[a]).loc]]

\* Shapes of a volume: (Z, Y, X) or the 2D (Y, X)
Shapes(maxDim) ==
    [1..3 -> 1..maxDim] \cup [1..2 -> 1..maxDim]

InitSlices ==
    /\ global_shape \in Shapes(MaxDim)
    /\ local_shape \in Shapes(MaxMask)
    /\ zyx_center \in
         {c \in [1..3 -> -1..MaxDim] :
            \A a \in 1..3 : c[a] <= To3DShape(global_shape)[a]}
    /\ slice_global_to_local = <<>>
    /\ slice_crop_local = <<>>
    /\ pcSlices = "call"
    /\ spots_zyx_radii_pxl = <<>>
    /\ IdleMask
    /\ IdleCoords
    /\ IdleAggr
    /\ IdlePipe

GetSlices ==
    /\ pcSlices = "call"
    /\ LET r == get_slices_local_into_global_3D_arr(
                    zyx_center, global_shape, local_shape)
       IN /\ slice_global_to_local' = r.slice_global_to_local
          /\ slice_crop_local' = r.slice_crop_local
    /\ pcSlices' = "returned"
    /\ UNCHANGED <<zyx_center, global_shape, local_shape>>
    /\ UNCHANGED <<varsMask, varsCoords, varsAggr, varsPipe>>

NextSlices == GetSlices

SpecSlices == InitSlices /\ [][NextSlices]_vars

-----------------------------------------------------------------------------
(* C1                                                                      *)

CenterInside ==
    \A a \in 1..3 :
        0 <= zyx_center[a] /\ zyx_center[a] < To3DShape(global_shape)[a]

\* The footprint interval [c - floor(d/2), c - floor(d/2) + d) of axis a
FootLo(a) == zyx_center[a] - (To3DShape(local_shape)[a] \div 2)
FootHi(a) == FootLo(a) + To3DShape(local_shape)[a]

\* C1: for a center inside the volume the call returns, on each of the three
\* axes, a global slice selecting exactly the footprint interval clipped to
\* [0, D) and a local slice selecting exactly the mask indices whose global
\* position c - floor(d/2) + i falls inside the volume; the two selections
\* have the same length.
C1_SlicesClipExactly ==
    (pcSlices = "returned" /\ CenterInside) =>
        /\ Len(slice_global_to_local) = 3
        /\ Len(slice_crop_local) = 3
        /\ \A a \in 1..3 :
             LET D == To3DShape(global_shape)[a]
                 d == To3DShape(local_shape)[a]
                 G == PySliceIndices(slice_global_to_local[a], D)
                 L == PySliceIndices(slice_crop_local[a], d)
             IN /\ G = {i \in 0..(D - 1) : FootLo(a) <= i /\ i < FootHi(a)}
                /\ L = {i \in 0..(d - 1) :
                          0 <= FootLo(a) + i /\ FootLo(a) + i < D}
                /\ Cardinality(G) = Cardinality(L)
                /\ Cardinality(G) >= 1

\* A mask clipped on both sides of one axis and on the low side of another
C1_Witness ==
    /\ pcSlices = "returned"
    /\ CenterInside
    /\ \E a \in 1..3 :
         /\ ~slice_crop_local[a].start.none
         /\ ~slice_crop_local[a].stop.none
    /\ \E a \in 1..3 :
         /\ slice_crop_local[a].start.none
         /\ slice_crop_local[a].stop.none

-----------------------------------------------------------------------------
(* Label volumes and skimage.measure.regionprops                           *)

Voxels(shape) ==
    (0..(shape[1] - 1)) \X (0..(shape[2] - 1)) \X (0..(shape[3] - 1))

\* The voxels of the volume in C (raster) order, as an (N, 3) array
RasterVoxels(shape) ==
    [n \in 1..(shape[1] * shape[2] * shape[3]) |->
        <<(n - 1) \div (shape[2] * shape[3]),
          ((n - 1) \div shape[3]) % shape[2],
          (n - 1) % shape[3]>>]

\* Half-open intervals [a, b) of an axis of length D
Intervals(D) == {<<a, b>> : a \in 0..(D - 1), b \in 1..D} \cap
                {i \in (0..D) \X (0..D) : i[1] < i[2]}

\* Boxes of a volume: one interval per axis
Boxes(shape) == Intervals(shape[1]) \X Intervals(shape[2]) \X Intervals(shape[3])

InBox(v, box) ==
    \A a \in 1..3 : box[a][1] <= v[a] /\ v[a] < box[a][2]

\* The first, the middle and the last voxel of the volume
MarkVoxels(shape) ==
    {<<0, 0, 0>>,
     <<shape[1] \div 2, shape[2] \div 2, shape[3] \div 2>>,
     <<shape[1] - 1, shape[2] - 1, shape[3] - 1>>}

\* A label volume: the voxels of boxes[1] carry label 1, then those of
\* boxes[2] are painted with label 2, and so on (a later box overwrites)
RECURSIVE LabelAt(_, _, _)
LabelAt(v, boxes, n) ==
    IF n = 0 THEN 0
    ELSE IF InBox(v, boxes[n]) THEN n
    ELSE LabelAt(v, boxes, n - 1)

PaintLab(shape, boxes) ==
    [shape |-> shape,
     at |-> Table([v \in Voxels(shape) |-> LabelAt(v, boxes, Len(boxes))])]

VoxelBox(v) == <<<<v[1], v[1] + 1>>, <<v[2], v[2] + 1>>, <<v[3], v[3] + 1>>>>

SetMin(S) == CHOOSE m \in S : \A e \in S : m <= e
SetMax(S) == CHOOSE m \in S : \A e \in S : m >= e

RECURSIVE SortedSeq(_)
SortedSeq(S) ==
    IF S = {} THEN <<>>
    ELSE <<SetMin(S)>> \o SortedSeq(S \ {SetMin(S)})

LabelVoxels(L, ID) == {v \in DOMAIN L.at : L.at[v] = ID}

\* The region of one label: obj.label and obj.bbox =
\* (zmin, ymin, xmin, zmax, ymax, xmax), the maxima exclusive
RegionOf(L, ID) ==
    LET vs == LabelVoxels(L, ID)
    IN [label |-> ID,
        bbox |-> [k \in 1..6 |->
                    IF k <= 3 THEN SetMin({v[k] : v \in vs})
                    ELSE SetMax({v[k - 3] : v \in vs}) + 1]]

\* skimage.measure.regionprops(lab): the regions of the labels > 0 in
\* ascending order of label
regionprops(L) ==
    LET ids == SortedSeq({L.at[v] : v \in DOMAIN L.at} \ {0})
    IN Table([i \in 1..Len(ids) |-> RegionOf(L, ids[i])])

\* obj.slice: [s.start for s in obj.slice] and [s.stop for s in obj.slice]
SliceStart(obj) == <<obj.bbox[1], obj.bbox[2], obj.bbox[3]>>
SliceStop(obj) == <<obj.bbox[4], obj.bbox[5], obj.bbox[6]>>

\* obj.image.shape
ImageShape(obj) == [a \in 1..3 |-> obj.bbox[a + 3] - obj.bbox[a]]

\* obj.image[zz, yy, xx] at a local coordinate inside the bounding box
ObjImageAt(L, obj, loc) ==
    L.at[<<loc[1] + obj.bbox[1], loc[2] + obj.bbox[2],
           loc[3] + obj.bbox[3]>>] = obj.label

VecAdd(u, v) == [a \in 1..3 |-> u[a] + v[a]]
VecSub(u, v) == [a \in 1..3 |-> u[a] - v[a]]

-----------------------------------------------------------------------------
(* transformations.get_expand_obj_delta_tolerance and                      *)
(* transformations.get_expanded_obj_slice_image                            *)

\* The mutant of get_expand_obj_delta_tolerance: ceil first, then doubled
DeltaCeilThenDouble(radii) ==
    [a \in 1..3 |-> IF a = 1 THEN RCeil(radii[a]) ELSE 2 * RCeil(radii[a])]

\* `delta_tol[1:] *= 2; delta_tol = np.ceil(delta_tol).astype(int)`
get_expand_obj_delta_tolerance(radii) ==
    [a \in 1..3 |-> IF a = 1 THEN RCeil(radii[a]) ELSE RCeil(RDouble(radii[a]))]

\* The mutant of ClipStart: the start of the window is not clipped at 0
NoClipStart(start) == start

\* `np.clip(crop_obj_start, 0, None)`
ClipStart(start) == [a \in 1..3 |-> Max2(start[a], 0)]

\* `np.clip(crop_obj_stop, None, (Z, Y, X))`
ClipStop(stop, shape) == [a \in 1..3 |-> Min2(stop[a], shape[a])]

\* Returns obj_slice (start, stop per axis) and crop_obj_start; obj_image is
\* lab[obj_slice] == obj.label
get_expanded_obj_slice_image(obj, delta_expand, L) ==
    LET crop_obj_start == ClipStart(VecSub(SliceStart(obj), delta_expand))
        crop_obj_stop == ClipStop(VecAdd(SliceStop(obj), delta_expand), L.shape)
    IN [label |-> obj.label,
        obj_slice |-> [start |-> crop_obj_start, stop |-> crop_obj_stop],
        crop_obj_start |-> crop_obj_start]

-----------------------------------------------------------------------------
(* transformations.from_spots_coords_arr_to_df, to_local_zyx_coords and    *)
(* init_df_features.  A table is a sequence of rows; the three columns of a *)
(* coordinate frame are kept as one (z, y, x) tuple.                       *)

\* (zz, yy, xx) of one row of spots_coords: `zz = [0]*len(xx)` for (N, 2)
ZYXOf(c) == IF Len(c) = 2 THEN <<0, c[1], c[2]>> ELSE c

\* The rows of a table that satisfy Cell_ID = ID, in order
RECURSIVE RowsOf(_, _)
RowsOf(df, ID) ==
    IF df = <<>> THEN <<>>
    ELSE (IF Head(df).Cell_ID = ID THEN <<Head(df)>> ELSE <<>>)
            \o RowsOf(Tail(df), ID)

RECURSIVE ConcatRowsOf(_, _)
ConcatRowsOf(df, ids) ==
    IF ids = <<>> THEN <<>>
    ELSE RowsOf(df, Head(ids)) \o ConcatRowsOf(df, Tail(ids))

\* `.set_index(['Cell_ID', 'spot_id']).sort_index()`: spot_id is increasing
\* in the input, so the sort groups the rows by Cell_ID and keeps their order
SortIndex(df) ==
    ConcatRowsOf(df, SortedSeq({df[i].Cell_ID : i \in 1..Len(df)}))

\* The mutant of LocalOf: the local frame measured from the slice stop
LocalOfStop(zyx, obj) == VecSub(zyx, SliceStop(obj))

\* `zz - zmin`, `yy - ymin`, `xx - xmin`
LocalOf(zyx, obj) == VecSub(zyx, SliceStart(obj))

\* The object of rp with the given label, or the empty sequence
ObjsWithLabel(rp, ID) == SelectSeq(rp, LAMBDA o : o.label = ID)

from_spots_coords_arr_to_df(coords, L) ==
    LET rp == regionprops(L)
        df_coords == SortIndex(
            [s \in 1..Len(coords) |->
                [Cell_ID |-> L.at[ZYXOf(coords[s])], spot_id |-> s,
                 zyx |-> ZYXOf(coords[s]), zyx_local |-> <<0, 0, 0>>]])
    IN [i \in 1..Len(df_coords) |->
          LET objs == ObjsWithLabel(rp, df_coords[i].Cell_ID)
          IN IF objs = <<>> THEN df_coords[i]
             ELSE [df_coords[i] EXCEPT
                     !.zyx_local = LocalOf(df_coords[i].zyx, objs[1])]]

\* The labels `df_coords.loc[[obj.label], ...]` looks up and does not find
MissingLabels(coords, L) ==
    {ID \in {L.at[v] : v \in DOMAIN L.at} \ {0} :
        \A s \in 1..Len(coords) : L.at[ZYXOf(coords[s])] # ID}

\* The rows of local_zyx_coords that pass the four filters and obj.image
RECURSIVE FilterLocal(_, _, _)
FilterLocal(locs, L, obj) ==
    IF locs = <<>> THEN <<>>
    ELSE LET c == Head(locs)
             inside == /\ \A a \in 1..3 : c[a] >= 0
                       /\ c[1] < ImageShape(obj)[1]
                       /\ c[2] < ImageShape(obj)[2]
                       /\ c[3] < ImageShape(obj)[3]
         IN (IF inside /\ ObjImageAt(L, obj, c) THEN <<c>> ELSE <<>>)
               \o FilterLocal(Tail(locs), L, obj)

to_local_zyx_coords(L, obj, global_zyx_coords) ==
    FilterLocal([s \in 1..Len(global_zyx_coords) |->
                    LocalOf(global_zyx_coords[s], obj)], L, obj)

\* `global_peaks_coords = local_peaks_coords + zyx_local_to_global`
GlobalOf(loc, obj) == VecAdd(loc, SliceStart(obj))

\* Returns None (the empty record set apart by `none`) or the table
init_df_features(df, obj, crop_obj_start) ==
    LET rows == RowsOf(df, obj.label)
    IN IF rows = <<>> THEN None
       ELSE [none |-> FALSE,
             df |-> [k \in 1..Len(rows) |->
                LET g == GlobalOf(rows[k].zyx_local, obj)
                IN [spot_id |-> k,
                    zyx |-> g,
                    zyx_local |-> rows[k].zyx_local,
                    zyx_local_expanded |-> VecSub(g, crop_obj_start)]]]

\* `df['spot_id'] += last_spot_id`
AddSpotId(df, last_spot_id) ==
    [k \in 1..Len(df) |-> [df[k] EXCEPT !.spot_id = @ + last_spot_id]]

-----------------------------------------------------------------------------
(* The coordinate bookkeeping of pipe.spot_detection (return_df=True),     *)
(* pipe.spots_calc_features_and_filter and pipe.compute_spots_features     *)

\* The loop over the objects of spots_calc_features_and_filter: the expanded
\* window and the table of every object, spot ids counted across objects
RECURSIVE CalcFeaturesLoop(_, _, _, _, _)
CalcFeaturesLoop(rp, df, L, delta, acc) ==
    IF rp = <<>> THEN acc
    ELSE LET obj == Head(rp)
             ex == get_expanded_obj_slice_image(obj, delta, L)
             res == init_df_features(df, obj, ex.crop_obj_start)
             acc1 == [acc EXCEPT !.expanded_objs = Append(@, ex)]
         IN IF res.none
            THEN CalcFeaturesLoop(Tail(rp), df, L, delta, acc1)
            ELSE CalcFeaturesLoop(Tail(rp), df, L, delta,
                    [acc1 EXCEPT
                        !.keys = Append(@, obj.label),
                        !.dfs = Append(@, AddSpotId(res.df, acc.last_spot_id)),
                        !.last_spot_id = @ + Len(res.df)])

\* The loop over enumerate(rp) of compute_spots_features; obj_idx counts from
\* 0.  `dfs_features[obj_idx-1]` raises IndexError when an earlier object
\* was skipped.
RECURSIVE ComputeFeaturesLoop(_, _, _, _, _, _)
ComputeFeaturesLoop(rp, obj_idx, coords, L, delta, acc) ==
    IF rp = <<>> \/ acc.error # "" THEN acc
    ELSE LET obj == Head(rp)
             local_zyx_coords == to_local_zyx_coords(L, obj, coords)
             ex == get_expanded_obj_slice_image(obj, delta, L)
             df == [k \in 1..Len(local_zyx_coords) |->
                      [Cell_ID |-> obj.label,
                       zyx_local |-> local_zyx_coords[k]]]
             res == init_df_features(df, obj, ex.crop_obj_start)
             acc1 == [acc EXCEPT !.expanded_objs = Append(@, ex)]
         IN IF res.none
            THEN ComputeFeaturesLoop(Tail(rp), obj_idx + 1, coords, L, delta,
                                     acc1)
            ELSE IF obj_idx > 0 /\ obj_idx > Len(acc.dfs)
            THEN [acc1 EXCEPT !.error = "IndexError"]
            ELSE LET last_spot_id ==
                        IF obj_idx > 0
                        THEN acc.dfs[obj_idx][Len(acc.dfs[obj_idx])].spot_id
                        ELSE 0
                 IN ComputeFeaturesLoop(Tail(rp), obj_idx + 1, coords, L,
                       delta,
                       [acc1 EXCEPT
                          !.keys = Append(@, obj.label),
                          !.dfs = Append(@, AddSpotId(res.df, last_spot_id))])

EmptyAcc == [expanded_objs |-> <<>>, keys |-> <<>>, dfs |-> <<>>,
             last_spot_id |-> 0, error |-> ""]

CoordShape == <<CoordZ, CoordYX, CoordYX>>

\* The label volumes: empty, one box, or one box and one marked voxel
CoordLabs ==
    {PaintLab(CoordShape, <<>>)}
    \cup {PaintLab(CoordShape, <<b>>) : b \in Boxes(CoordShape)}
    \cup {PaintLab(CoordShape, <<b, VoxelBox(v)>>) :
             b \in Boxes(CoordShape), v \in MarkVoxels(CoordShape)}

\* The candidate coordinates: every voxel, or every voxel of the first plane
CoordSpots ==
    {RasterVoxels(CoordShape),
     SelectSeq(RasterVoxels(CoordShape), LAMBDA c : c[1] = 0)}

InitCoords ==
    /\ lab \in CoordLabs
    /\ spots_coords \in CoordSpots
    \* radii equal on the three axes, or 2D mode (zr = 0)
    /\ spots_zyx_radii_pxl \in
          {<<r, r, r>> : r \in Radii(CoordRadNum)}
          \cup {<<<<0, 2>>, r, r>> : r \in Radii(CoordRadNum)}
    /\ delta_tol = <<>>
    /\ df_spots_coords = <<>>
    /\ expanded_objs = <<>>
    /\ keys = <<>>
    /\ dfs_features = <<>>
    /\ pcCoords = "start"
    /\ IdleSlices
    /\ IdleMask
    /\ IdleAggr
    /\ IdlePipe

\* spot_detection(..., return_df=True): from_spots_coords_arr_to_df.  For an
\* object without any spot `df_coords.loc[[obj.label], 'z']` looks up a label
\* absent from the index: pandas raises KeyError (older releases select
\* nothing), so both outcomes are possible.
SpotDetectionDf ==
    /\ pcCoords = "start"
    /\ \/ /\ df_spots_coords' = from_spots_coords_arr_to_df(spots_coords, lab)
          /\ pcCoords' = "detected"
       \/ /\ MissingLabels(spots_coords, lab) # {}
          /\ df_spots_coords' = df_spots_coords
          /\ pcCoords' = "KeyError"
    /\ UNCHANGED <<lab, spots_coords, delta_tol, expanded_objs, keys,
                   dfs_features, spots_zyx_radii_pxl>>
    /\ UNCHANGED <<varsSlices, detect_image_ndim, spot_footprint,
                   min_size_spheroid_mask, pcMask, varsAggr, varsPipe>>

\* spots_calc_features_and_filter with delta_tol=None, up to the tables of
\* the detected spots (dfs_spots_det)
SpotsCalcFeaturesAndFilter ==
    /\ pcCoords = "detected"
    /\ \E delta \in {get_expand_obj_delta_tolerance(spots_zyx_radii_pxl)} :
       \E acc \in {CalcFeaturesLoop(regionprops(lab), df_spots_coords, lab,
                                    delta, EmptyAcc)} :
          /\ delta_tol' = delta
          /\ expanded_objs' = acc.expanded_objs
          /\ keys' = acc.keys
          /\ dfs_features' = acc.dfs
    /\ pcCoords' = "filtered"
    /\ UNCHANGED <<lab, spots_coords, df_spots_coords, spots_zyx_radii_pxl>>
    /\ UNCHANGED <<varsSlices, detect_image_ndim, spot_footprint,
                   min_size_spheroid_mask, pcMask, varsAggr, varsPipe>>

\* compute_spots_features with delta_tol=None; pd.concat raises ValueError on
\* an empty list of tables
ComputeSpotsFeatures ==
    /\ pcCoords = "start"
    /\ \E delta \in {get_expand_obj_delta_tolerance(spots_zyx_radii_pxl)} :
       \E acc \in {ComputeFeaturesLoop(regionprops(lab), 0, spots_coords,
                                       lab, delta, EmptyAcc)} :
          /\ delta_tol' = delta
          /\ \/ /\ acc.error = "" /\ acc.dfs # <<>>
                /\ expanded_objs' = acc.expanded_objs
                /\ keys' = acc.keys
                /\ dfs_features' = acc.dfs
                /\ pcCoords' = "computed"
             \/ /\ acc.error = "" /\ acc.dfs = <<>>
                /\ UNCHANGED <<expanded_objs, keys, dfs_features>>
                /\ pcCoords' = "ValueError"
             \/ /\ acc.error # ""
                /\ UNCHANGED <<expanded_objs, keys, dfs_features>>
                /\ pcCoords' = acc.error
    /\ UNCHANGED <<lab, spots_coords, df_spots_coords, spots_zyx_radii_pxl>>
    /\ UNCHANGED <<varsSlices, detect_image_ndim, spot_footprint,
                   min_size_spheroid_mask, pcMask, varsAggr, varsPipe>>

NextCoords ==
    \/ SpotDetectionDf
    \/ SpotsCalcFeaturesAndFilter
    \/ ComputeSpotsFeatures

SpecCoords == InitCoords /\ [][NextCoords]_vars

-----------------------------------------------------------------------------
(* C4                                                                      *)

\* ceil(2*r) and ceil(r) of a radius, as the least integer not below
CeilOfTwice(r) == CHOOSE n \in 0..(2 * r[1] + 1) :
                     n * r[2] >= 2 * r[1] /\ (n - 1) * r[2] < 2 * r[1]
CeilOf(r) == CHOOSE n \in 0..(r[1] + 1) :
                     n * r[2] >= r[1] /\ (n - 1) * r[2] < r[1]

CoordsDone == pcCoords \in {"filtered", "computed"}

\* The window of every object is its bounding box grown by delta_tol on
\* each side and clipped to the volume, so it contains the bounding box
WindowsGrownAndClipped ==
    /\ Len(expanded_objs) = Len(regionprops(lab))
    /\ \A i \in 1..Len(expanded_objs) :
         \E obj \in {regionprops(lab)[i]} :
         \A a \in 1..3 :
            /\ expanded_objs[i].label = obj.label
            /\ expanded_objs[i].obj_slice.start[a] =
                  Max2(obj.bbox[a] - delta_tol[a], 0)
            /\ expanded_objs[i].obj_slice.stop[a] =
                  Min2(obj.bbox[a + 3] + delta_tol[a], lab.shape[a])
            /\ expanded_objs[i].obj_slice.start[a] <= obj.bbox[a]
            /\ obj.bbox[a + 3] <= expanded_objs[i].obj_slice.stop[a]
            /\ expanded_objs[i].crop_obj_start[a] =
                  expanded_objs[i].obj_slice.start[a]

\* C4 as stated: delta = (ceil(r_z), 2*ceil(r_y), 2*ceil(r_x)), ceil first
\* and then y and x doubled, and the window of every object is its bounding
\* box grown by delta on each side, clipped to the volume.
C4_CeilThenDoubleAsStated ==
    CoordsDone =>
        /\ delta_tol = <<CeilOf(spots_zyx_radii_pxl[1]),
                         2 * CeilOf(spots_zyx_radii_pxl[2]),
                         2 * CeilOf(spots_zyx_radii_pxl[3])>>
        /\ WindowsGrownAndClipped

\* C4, amended: delta = (ceil(r_z), ceil(2*r_y), ceil(2*r_x)), y and x
\* doubled first and then rounded up, and the window of every object is its
\* bounding box grown by delta on each side, clipped to the volume, so it
\* contains the bounding box.
C4_DoubleThenCeil ==
    CoordsDone =>
        /\ delta_tol = <<CeilOf(spots_zyx_radii_pxl[1]),
                         CeilOfTwice(spots_zyx_radii_pxl[2]),
                         CeilOfTwice(spots_zyx_radii_pxl[3])>>
        /\ WindowsGrownAndClipped

\* Radii 1/2: ceil(2*r) = 1 differs from 2*ceil(r) = 2, and a window is
\* clipped on one side of the y axis and not on the other
C4_Witness ==
    /\ pcCoords = "filtered"
    /\ spots_zyx_radii_pxl[2] = <<1, 2>>
    /\ delta_tol = <<1, 1, 1>>
    /\ \E i \in 1..Len(expanded_objs) :
         /\ expanded_objs[i].obj_slice.start[2] = 0
         /\ regionprops(lab)[i].bbox[2] = 0
         /\ expanded_objs[i].obj_slice.stop[2]
               = regionprops(lab)[i].bbox[5] + 1

-----------------------------------------------------------------------------
(* C5                                                                      *)

\* The candidate coordinates inside the mask of label ID, in input order
RECURSIVE SpotsInMask(_, _)
SpotsInMask(coords, ID) ==
    IF coords = <<>> THEN <<>>
    ELSE (IF lab.at[ZYXOf(Head(coords))] = ID
          THEN <<ZYXOf(Head(coords))>> ELSE <<>>)
            \o SpotsInMask(Tail(coords), ID)

LabelsWithSpots ==
    {lab.at[ZYXOf(spots_coords[s])] : s \in 1..Len(spots_coords)} \ {0}

\* The expanded window of object i does not reach the volume boundary:
\* nothing of the growth by delta_tol was clipped
WindowUnclipped(obj) ==
    \A a \in 1..3 :
        /\ obj.bbox[a] - delta_tol[a] >= 0
        /\ obj.bbox[a + 3] + delta_tol[a] <= lab.shape[a]

\* C5: on either path (from_spots_coords_arr_to_df then init_df_features;
\* to_local_zyx_coords then init_df_features) the tables hold, for every
\* object with candidates inside its mask, exactly those candidates, each
\* with its original global coordinate and in the input order; candidates
\* outside every mask are in no table.  This holds for every object, and in
\* particular for those whose expanded window is not clipped.
C5_RoundTrip ==
    CoordsDone =>
        /\ keys = SortedSeq(LabelsWithSpots)
        /\ Len(dfs_features) = Len(keys)
        /\ \A i \in 1..Len(keys) :
             [k \in 1..Len(dfs_features[i]) |-> dfs_features[i][k].zyx]
                = SpotsInMask(spots_coords, keys[i])

\* An object of two or more voxels beside a second object, in a window that
\* was grown by a non-zero delta without being clipped on y and x
C5_Witness ==
    /\ CoordsDone
    /\ delta_tol[2] > 0
    /\ Len(keys) = 2
    /\ \E i \in 1..Len(regionprops(lab)) :
         /\ WindowUnclipped(regionprops(lab)[i])
         /\ regionprops(lab)[i].label = keys[1]
         /\ Len(dfs_features[1]) >= 2
    /\ \E s \in 1..Len(spots_coords) : lab.at[ZYXOf(spots_coords[s])] = 0

-----------------------------------------------------------------------------
(* C6                                                                      *)

\* The global index that position i of image[slice(start, stop)] holds on
\* an axis of length D, or -1 when the cropped axis is shorter
CroppedToGlobal(start, stop, D, i) ==
    LET sel == PySliceIndices(PySlice(Some(start), Some(stop)), D)
    IN IF 0 <= i /\ i < Cardinality(sel) THEN SetMin(sel) + i ELSE -1

ExpandedOf(ID) ==
    CHOOSE e \in {expanded_objs[i] : i \in 1..Len(expanded_objs)} :
        e.label = ID

\* C6: in every table the expanded-local coordinate is the global one minus
\* the crop start of the object's window, lies inside the cropped window,
\* and addresses in image[obj_slice] the voxel that the global coordinate
\* addresses in the image, also when the window was clipped.
C6_ExpandedLocal ==
    CoordsDone =>
        \A i \in 1..Len(keys) :
          \E e \in {ExpandedOf(keys[i])} :
          \A k \in 1..Len(dfs_features[i]) :
            \E row \in {dfs_features[i][k]} :
            \A a \in 1..3 :
              /\ row.zyx_local_expanded[a] = row.zyx[a] - e.crop_obj_start[a]
              /\ 0 <= row.zyx_local_expanded[a]
              /\ row.zyx_local_expanded[a] <
                    PySliceLen(PySlice(Some(e.obj_slice.start[a]),
                                       Some(e.obj_slice.stop[a])),
                               lab.shape[a])
              /\ CroppedToGlobal(e.obj_slice.start[a], e.obj_slice.stop[a],
                                 lab.shape[a], row.zyx_local_expanded[a])
                    = row.zyx[a]

\* A window clipped at the low side of y and grown, unclipped, at the low
\* side of x, with a spot whose expanded-local and local frames differ
C6_Witness ==
    /\ pcCoords = "filtered"
    /\ delta_tol[2] = 2
    /\ \E i \in 1..Len(keys) :
         \E e \in {ExpandedOf(keys[i])} :
         \E obj \in {regionprops(lab)[j] : j \in 1..Len(regionprops(lab))} :
            /\ obj.label = keys[i]
            /\ obj.bbox[2] = 1 /\ e.crop_obj_start[2] = 0
            /\ obj.bbox[3] = 2 /\ e.crop_obj_start[3] = 0
            /\ \E k \in 1..Len(dfs_features[i]) :
                 dfs_features[i][k].zyx_local_expanded
                    # dfs_features[i][k].zyx_local

-----------------------------------------------------------------------------
(* The object aggregator: transformations.get_aggregate_obj_slice,         *)
(* _aggregate_objs, _merge_moth_bud, _separate_moth_buds, aggregate_objs   *)
(* and deaggregate_img                                                     *)

\* Volume depth and height, volume width, and the largest tolerance
AggrZY == 2
AggrX == 4
MaxTol == 2

\* A Python value that may be None
Just(x) == [none |-> FALSE, val |-> x]

RECURSIVE SeqSum(_)
SeqSum(q) == IF q = <<>> THEN 0 ELSE Head(q) + SeqSum(Tail(q))

\* The running maximum of the loop "if h > max_height: max_height = h",
\* which starts at 0
RECURSIVE SeqMax0(_)
SeqMax0(q) == IF q = <<>> THEN 0 ELSE Max2(Head(q), SeqMax0(Tail(q)))

\* numpy assignment dst[...] = src: src must broadcast to the target shape
Broadcastable(src, dst) == \A a \in 1..3 : src[a] = dst[a] \/ src[a] = 1

\* The source index that a target index reads under broadcasting
BroadcastIdx(idx, src) == [a \in 1..3 |-> IF src[a] = 1 THEN 0 ELSE idx[a]]

\* The shape of arr[sl] for a tuple sl of three slices
SliceShape(sl, shape) == [a \in 1..3 |-> PySliceLen(sl[a], shape[a])]

\* The first index that each slice of sl selects
SliceLo(sl, shape) == [a \in 1..3 |-> PyBound(sl[a].start, shape[a], 0)]

\* int(zmin+(zmax-zmin)/2)
WindowCentre(lo, hi) == lo + ((hi - lo) \div 2)

\* The mutant of AxisWindow: a window that sticks out of the volume is cut
\* at the boundary instead of moved inside
AxisWindowCut(c, max_top, max_len, max_bottom, D) ==
    <<Max2(c - max_top, 0), Min2(c + max_bottom, D)>>

\* The y (or z) window of get_aggregate_obj_slice: max_len voxels around
\* the centre c, moved inside [0, D) when it sticks out
AxisWindow(c, max_top, max_len, max_bottom, D) ==
    LET top0 == c - max_top
        top1 == IF top0 < 0 THEN 0 ELSE top0
        bottom1 == IF top0 < 0 THEN max_len ELSE c + max_bottom
    IN IF bottom1 > D THEN <<D - max_len, D>> ELSE <<top1, bottom1>>

get_aggregate_obj_slice(obj, max_h_top, max_height, max_h_bottom, max_d_fwd, max_depth, max_d_back, img_data_shape, dx) ==
    LET X == img_data_shape[3]
        x_left0 == obj.bbox[3] - IntHalf(dx)
        x_right0 == obj.bbox[6] + IntHalf(dx)
        x_left == IF x_left0 < 0 THEN 0 ELSE x_left0
        x_right == IF x_right0 > X THEN X ELSE x_right0
        z == WindowCentre(obj.bbox[1], obj.bbox[4])
        y == WindowCentre(obj.bbox[2], obj.bbox[5])
        hwin == AxisWindow(y, max_h_top, max_height, max_h_bottom,
                           img_data_shape[2])
        dwin == AxisWindow(z, max_d_fwd, max_depth, max_d_back,
                           img_data_shape[1])
    IN <<PySlice(Some(dwin[1]), Some(dwin[2])),
         PySlice(Some(hwin[1]), Some(hwin[2])),
         PySlice(Some(x_left), Some(x_right))>>

\* The second loop of _aggregate_objs: the slot of every object, with
\* P the values computed before the loop
RECURSIVE AggrSlots(_, _, _, _)
AggrSlots(rp, i, last_w, P) ==
    IF i > Len(rp) THEN <<>>
    ELSE LET obj == rp[i]
             w == ImageShape(obj)[3] + P.dx
             obj_slice == get_aggregate_obj_slice(
                 obj, P.max_h_top, P.max_height, P.max_h_bottom,
                 P.max_d_fwd, P.max_depth, P.max_d_back, P.shape, P.dx)
             obj_width == obj_slice[3].stop.val - obj_slice[3].start.val
             slice_x_end == last_w + obj_width
         IN <<[label |-> obj.label,
               obj_slice |-> obj_slice,
               excess |-> w - obj_width,
               last_w |-> last_w,
               slice_x_end |-> slice_x_end,
               src |-> SliceShape(obj_slice, P.shape),
               dst |-> <<P.max_depth, P.max_height,
                         PySliceLen(PySlice(Some(last_w), Some(slice_x_end)),
                                    P.tot_width)>>,
               lo |-> SliceLo(obj_slice, P.shape)]>>
            \o AggrSlots(rp, i + 1, slice_x_end, P)

\* The mutant of TrimExcess: the excess width is kept
KeepExcess(tot_width, excess_width) == tot_width

\* The width left by [..., :-excess_width] when excess_width > 0
TrimExcess(tot_width, excess_width) ==
    IF excess_width > 0
    THEN PySliceLen(PySlice(None, Some(-excess_width)), tot_width)
    ELSE tot_width

\* The slot that wrote column x last, 0 when no slot wrote it
SlotOf(slots, x) ==
    LET hit == {i \in 1..Len(slots) :
                   slots[i].last_w <= x /\ x < slots[i].slice_x_end}
    IN IF hit = {} THEN 0 ELSE SetMax(hit)

\* The voxel of the input volume that the slot shows at v
SlotSource(slot, v) ==
    LET loc == BroadcastIdx(<<v[1], v[2], v[3] - slot.last_w>>, slot.src)
    IN <<slot.lo[1] + loc[1], slot.lo[2] + loc[2], slot.lo[3] + loc[3]>>

\* The arrays that the loop and the trimming leave
PackedArrays(img, L, slots, shape) ==
    [aggregated_img |->
        [shape |-> shape,
         at |-> Table([v \in Voxels(shape) |->
                   IF SlotOf(slots, v[3]) = 0 THEN 0
                   ELSE img.at[SlotSource(slots[SlotOf(slots, v[3])], v)]])],
     aggregated_lab |->
        [shape |-> shape,
         at |-> Table([v \in Voxels(shape) |->
                   IF SlotOf(slots, v[3]) = 0 THEN 0
                   ELSE LET slot == slots[SlotOf(slots, v[3])]
                        IN IF L.at[SlotSource(slot, v)] = slot.label
                           THEN slot.label ELSE 0])]]

AggregateWith(img, L, rp, P) ==
    LET slots == AggrSlots(rp, 1, 0, P)
        excess_width == SeqSum([i \in 1..Len(slots) |-> slots[i].excess])
        shape == <<P.max_depth, P.max_height,
                   TrimExcess(P.tot_width, excess_width)>>
    IN  IF P.max_depth * P.max_height * P.tot_width = 0
        \* aggregated_img.min() of an array without elements
        THEN [error |-> "ValueError"]
        ELSE IF \E i \in 1..Len(slots) :
                    ~Broadcastable(slots[i].src, slots[i].dst)
        THEN [error |-> "ValueError"]
        ELSE [error |-> "",
              x_slice_idxs |-> [i \in 1..Len(slots) |-> slots[i].slice_x_end]]
             @@ PackedArrays(img, L, slots, shape)

_aggregate_objs(img, L, tolerance) ==
    LET dz == IF tolerance.none THEN 0 ELSE tolerance.val[1]
        dy == IF tolerance.none THEN 0 ELSE tolerance.val[2]
        dx == IF tolerance.none THEN 0 ELSE tolerance.val[3]
        rp_merged == regionprops(L)
        tot_width == SeqSum([i \in 1..Len(rp_merged) |->
                                ImageShape(rp_merged[i])[3] + dx])
        max_height == Min2(SeqMax0([i \in 1..Len(rp_merged) |->
                                ImageShape(rp_merged[i])[2] + dy]),
                           L.shape[2])
        max_depth == Min2(SeqMax0([i \in 1..Len(rp_merged) |->
                                ImageShape(rp_merged[i])[1] + dz]),
                          L.shape[1])
    IN AggregateWith(img, L, rp_merged,
          [dx |-> dx, shape |-> img.shape, tot_width |-> tot_width,
           max_height |-> max_height, max_depth |-> max_depth,
           max_h_top |-> IntHalf(max_height),
           max_h_bottom |-> max_height - IntHalf(max_height),
           max_d_fwd |-> IntHalf(max_depth),
           max_d_back |-> max_depth - IntHalf(max_depth)])

\* Series.unique(): the values in their order of first appearance
RECURSIVE Unique(_)
Unique(q) ==
    IF q = <<>> THEN <<>>
    ELSE LET rest == Unique(SelectSeq(Tail(q), LAMBDA e : e # Head(q)))
         IN <<Head(q)>> \o rest

\* df_buds.at[mothID, 'Cell_ID'] for a mother with one bud row
BudOf(df_buds, mothID) ==
    LET row == CHOOSE k \in 1..Len(df_buds) : df_buds[k].relative_ID = mothID
    IN df_buds[row].Cell_ID

\* The mutant of MothBudFrame: the frame of the bud alone
BudFrame(L, budID, mothID) == LabelVoxels(L, budID)

\* The voxels of moth_bud_image: the bud's and the mother's
MothBudFrame(L, budID, mothID) ==
    LabelVoxels(L, budID) \cup LabelVoxels(L, mothID)

\* bud_images[mothID]: the bud's mask inside the bounding box of
\* mother and bud
BudImage(L, budID, frame) ==
    LET start == [a \in 1..3 |-> SetMin({v[a] : v \in frame})]
        stop == [a \in 1..3 |-> SetMax({v[a] : v \in frame}) + 1]
    IN [shape |-> [a \in 1..3 |-> stop[a] - start[a]],
        image |-> {<<v[1] - start[1], v[2] - start[2], v[3] - start[3]>> :
                      v \in LabelVoxels(L, budID)},
        budID |-> budID]

\* The loop of _merge_moth_bud over moth_IDs
RECURSIVE MergeLoop(_, _, _, _, _)
MergeLoop(moth_IDs, i, df_buds, L, acc) ==
    IF i > Len(moth_IDs) \/ acc.error # "" THEN acc
    ELSE LET mothID == moth_IDs[i]
             budID == BudOf(df_buds, mothID)
             frame == MothBudFrame(L, budID, mothID)
             merged == [shape |-> L.shape,
                        at |-> Table([v \in DOMAIN L.at |->
                                  IF L.at[v] = budID THEN mothID
                                  ELSE acc.lab_merged.at[v]])]
         IN IF frame = {}
            \* regionprops(moth_bud_image)[0] of an empty list
            THEN [acc EXCEPT !.error = "IndexError"]
            ELSE MergeLoop(moth_IDs, i + 1, df_buds, L,
                    [lab_merged |-> merged,
                     bud_images |-> (mothID :> BudImage(L, budID, frame))
                                       @@ acc.bud_images,
                     error |-> ""])

_merge_moth_bud(table, L) ==
    IF table.none THEN [lab_merged |-> L, bud_images |-> <<>>, error |-> ""]
    ELSE LET df_buds == SelectSeq(table.val,
                                  LAMBDA row : row.relationship = "bud")
             moth_IDs == Unique([k \in 1..Len(df_buds) |->
                                    df_buds[k].relative_ID])
         IN MergeLoop(moth_IDs, 1, df_buds, L,
                      [lab_merged |-> L, bud_images |-> <<>>, error |-> ""])

\* The loop of _separate_moth_buds over the regions of the merged labels
RECURSIVE SeparateLoop(_, _, _, _)
SeparateLoop(rp, i, bud_images, acc) ==
    IF i > Len(rp) \/ acc.error # "" THEN acc
    ELSE IF rp[i].label \notin DOMAIN bud_images
    THEN SeparateLoop(rp, i + 1, bud_images, acc)
    ELSE LET obj == rp[i]
             bud_info == bud_images[obj.label]
         IN IF bud_info.shape # ImageShape(obj)
            \* boolean index did not match the indexed array
            THEN [acc EXCEPT !.error = "IndexError"]
            ELSE SeparateLoop(rp, i + 1, bud_images,
                    [error |-> "",
                     lab_merged |->
                        [shape |-> acc.lab_merged.shape,
                         at |-> Table([v \in DOMAIN acc.lab_merged.at |->
                                   IF <<v[1] - obj.bbox[1],
                                        v[2] - obj.bbox[2],
                                        v[3] - obj.bbox[3]>>
                                         \in bud_info.image
                                   THEN bud_info.budID
                                   ELSE acc.lab_merged.at[v]])]])

_separate_moth_buds(lab_merged, bud_images) ==
    SeparateLoop(regionprops(lab_merged), 1, bud_images,
                 [error |-> "", lab_merged |-> lab_merged])

\* aggregate_objs after _aggregate_objs returned aggr
SeparateAggregated(aggr, bud_images) ==
    IF aggr.error # "" THEN [error |-> aggr.error]
    ELSE LET sep == _separate_moth_buds(aggr.aggregated_lab, bud_images)
         IN IF sep.error # "" THEN [error |-> sep.error]
            ELSE [error |-> "",
                  aggregated_img |-> aggr.aggregated_img,
                  aggregated_lab |-> sep.lab_merged,
                  x_slice_idxs |-> aggr.x_slice_idxs]

\* aggregate_objs after _merge_moth_bud returned merged
AggregateMerged(img, merged, tolerance) ==
    IF merged.error # "" THEN [error |-> merged.error]
    ELSE SeparateAggregated(_aggregate_objs(img, merged.lab_merged, tolerance),
                            merged.bud_images)

aggregate_objs(img, L, tolerance, table) ==
    AggregateMerged(img, _merge_moth_bud(table, L), tolerance)

InBBox(v, obj) ==
    \A a \in 1..3 : obj.bbox[a] <= v[a] /\ v[a] < obj.bbox[a + 3]

\* The loop of deaggregate_img over the regions of lab
RECURSIVE DeaggregateLoop(_, _, _, _, _)
DeaggregateLoop(rp, i, aggr_rp, aggr_img, acc) ==
    IF i > Len(rp) \/ acc.error # "" THEN acc
    ELSE LET obj == rp[i]
             hit == {k \in 1..Len(aggr_rp) : aggr_rp[k].label = obj.label}
         IN IF hit = {} THEN [acc EXCEPT !.error = "KeyError"]
            ELSE LET aggr_obj == aggr_rp[CHOOSE k \in hit : TRUE]
                     src == ImageShape(aggr_obj)
                 IN IF ~Broadcastable(src, ImageShape(obj))
                    THEN [acc EXCEPT !.error = "ValueError"]
                    ELSE DeaggregateLoop(rp, i + 1, aggr_rp, aggr_img,
                           [error |-> "",
                            deaggr_img |->
                              [shape |-> acc.deaggr_img.shape,
                               at |-> Table([v \in DOMAIN acc.deaggr_img.at |->
                                 IF InBBox(v, obj)
                                 THEN LET loc == BroadcastIdx(
                                            <<v[1] - obj.bbox[1],
                                              v[2] - obj.bbox[2],
                                              v[3] - obj.bbox[3]>>, src)
                                      IN aggr_img.at[
                                            <<aggr_obj.bbox[1] + loc[1],
                                              aggr_obj.bbox[2] + loc[2],
                                              aggr_obj.bbox[3] + loc[3]>>]
                                 ELSE acc.deaggr_img.at[v]])]])

deaggregate_img(aggr_img, aggr_lab, L) ==
    DeaggregateLoop(regionprops(L), 1, regionprops(aggr_lab), aggr_img,
        [error |-> "",
         deaggr_img |-> [shape |-> L.shape,
                         at |-> Table([v \in DOMAIN L.at |-> 0])]])

AggrShape == <<AggrZY, AggrZY, AggrX>>

\* The label volumes: empty, one box, or one box and one marked voxel
AggrLabs ==
    {PaintLab(AggrShape, <<>>)}
    \cup {PaintLab(AggrShape, <<b>>) : b \in Boxes(AggrShape)}
    \cup {PaintLab(AggrShape, <<b, VoxelBox(v)>>) :
             b \in Boxes(AggrShape), v \in MarkVoxels(AggrShape)}

\* An intensity volume of the shape of lab with a different positive value
\* in every voxel
AggrImage ==
    [shape |-> AggrShape,
     at |-> [v \in Voxels(AggrShape) |->
               1 + v[3] + AggrShape[3] * (v[2] + AggrShape[2] * v[1])]]

\* zyx_tolerance: None, or the same tolerance on the three axes
AggrTolerances == {None} \cup {Just(<<t, t, t>>) : t \in 1..MaxTol}

LineageRow(ID, relationship, relative_ID) ==
    [Cell_ID |-> ID, relationship |-> relationship,
     relative_ID |-> relative_ID]

\* lineage_table: None, or, when cells 1 and 2 are both segmented, the
\* table in which one of them is the bud of the other
AggrLineages(L) ==
    {None} \cup
    IF {1, 2} \subseteq {L.at[v] : v \in DOMAIN L.at}
    THEN {Just(<<LineageRow(1, "mother", 2), LineageRow(2, "bud", 1)>>),
          Just(<<LineageRow(1, "bud", 2), LineageRow(2, "mother", 1)>>)}
    ELSE {}

InitAggr ==
    /\ lab \in AggrLabs
    /\ img_data = AggrImage
    /\ zyx_tolerance \in AggrTolerances
    /\ lineage_table \in AggrLineages(lab)
    /\ aggregated_img = <<>>
    /\ aggregated_lab = <<>>
    /\ x_slice_idxs = <<>>
    /\ deaggr_img = <<>>
    /\ pcAggr = "start"
    /\ spots_zyx_radii_pxl = <<>>
    /\ IdleSlices
    /\ IdleMask
    /\ IdleCoordTables
    /\ IdlePipe

\* aggregate_objs(img_data, lab, zyx_tolerance, lineage_table=...,
\* return_x_slice_idxs=True)
AggregateObjs ==
    /\ pcAggr = "start"
    /\ \E r \in {aggregate_objs(img_data, lab, zyx_tolerance, lineage_table)} :
          IF r.error # ""
          THEN /\ pcAggr' = "aggregate_objs:" \o r.error
               /\ UNCHANGED <<aggregated_img, aggregated_lab, x_slice_idxs>>
          ELSE /\ pcAggr' = "aggregated"
               /\ aggregated_img' = r.aggregated_img
               /\ aggregated_lab' = r.aggregated_lab
               /\ x_slice_idxs' = r.x_slice_idxs
    /\ UNCHANGED <<img_data, zyx_tolerance, lineage_table, deaggr_img>>
    /\ UNCHANGED <<varsSlices, varsMask, varsCoords, varsPipe>>

\* deaggregate_img(aggregated_img, aggregated_lab, lab)
DeaggregateImg ==
    /\ pcAggr = "aggregated"
    /\ \E r \in {deaggregate_img(aggregated_img, aggregated_lab, lab)} :
          IF r.error # ""
          THEN /\ pcAggr' = "deaggregate_img:" \o r.error
               /\ UNCHANGED deaggr_img
          ELSE /\ pcAggr' = "deaggregated"
               /\ deaggr_img' = r.deaggr_img
    /\ UNCHANGED <<img_data, zyx_tolerance, lineage_table, aggregated_img,
                   aggregated_lab, x_slice_idxs>>
    /\ UNCHANGED <<varsSlices, varsMask, varsCoords, varsPipe>>

NextAggr == AggregateObjs \/ DeaggregateImg

SpecAggr == InitAggr /\ [][NextAggr]_vars

-----------------------------------------------------------------------------
(* C7 - C10: the object aggregator                                         *)

AggrRan == pcAggr \notin {"idle", "start"}
AggrReturned == pcAggr \in {"aggregated", "deaggregated",
                            "deaggregate_img:KeyError",
                            "deaggregate_img:ValueError"}

LabelsOf(L) == {L.at[v] : v \in DOMAIN L.at} \ {0}

\* C7: Aggregation round-trip. For a label volume with at least one
\* object, any tolerance and a same-shape intensity volume, aggregate_objs
\* and then deaggregate_img raise nothing, and the de-aggregated image
\* equals the original intensity at every voxel inside every object's mask.
C7_AggregationRoundTrip ==
    (AggrRan /\ LabelsOf(lab) # {}) =>
        /\ pcAggr \in {"aggregated", "deaggregated"}
        /\ pcAggr = "deaggregated" =>
              \A v \in DOMAIN lab.at :
                  lab.at[v] # 0 => deaggr_img.at[v] = img_data.at[v]

\* Two objects of different sizes packed with a tolerance into an array of
\* another shape than the volume, and de-aggregated
C7_Witness ==
    /\ pcAggr = "deaggregated"
    /\ Cardinality(LabelsOf(lab)) = 2
    /\ ~zyx_tolerance.none
    /\ aggregated_img.shape # lab.shape
    /\ \E v \in DOMAIN lab.at : lab.at[v] = 1 /\ deaggr_img.at[v] = img_data.at[v]
    /\ \E v \in DOMAIN lab.at : lab.at[v] = 2 /\ deaggr_img.at[v] = img_data.at[v]
    /\ \E v \in DOMAIN lab.at : lab.at[v] = 0 /\ deaggr_img.at[v] = 0

\* The bud rows of the lineage table as <<bud, mother>>
BudPairs ==
    IF lineage_table.none THEN {}
    ELSE {<<lineage_table.val[k].Cell_ID, lineage_table.val[k].relative_ID>> :
             k \in {j \in 1..Len(lineage_table.val) :
                       lineage_table.val[j].relationship = "bud"}}

\* The label under which a cell is packed: the mother's for a bud
PackedLabel(l) ==
    IF \E p \in BudPairs : p[1] = l
    THEN (CHOOSE p \in BudPairs : p[1] = l)[2]
    ELSE l

PackedVoxels(m) ==
    {v \in DOMAIN lab.at : lab.at[v] # 0 /\ PackedLabel(lab.at[v]) = m}

\* The packed objects in ascending order of label
PackedObjects == SortedSeq({PackedLabel(l) : l \in LabelsOf(lab)})

Extent(S, a) == SetMax({v[a] : v \in S}) - SetMin({v[a] : v \in S}) + 1

Tol(a) == IF zyx_tolerance.none THEN 0 ELSE zyx_tolerance.val[a]

\* The width of the x window of an object: int(dx/2) more columns on each
\* side of the bounding box, clipped to the volume
PaddedWidth(S) ==
    Min2(SetMax({v[3] : v \in S}) + 1 + (Tol(3) \div 2), lab.shape[3])
    - Max2(SetMin({v[3] : v \in S}) - (Tol(3) \div 2), 0)

\* The voxel sets of the packed objects, in ascending order of label
PackedSets ==
    Table([i \in 1..Len(PackedObjects) |-> PackedVoxels(PackedObjects[i])])

\* The sum of the padded widths of the first i of the voxel sets
RECURSIVE CumWidth(_, _)
CumWidth(sets, i) ==
    IF i = 0 THEN 0 ELSE CumWidth(sets, i - 1) + PaddedWidth(sets[i])

\* C8: the packed array has depth min(max_i(d_i + dz), Z), height
\* min(max_i(h_i + dy), Y) and width the sum of the boundary-clipped padded
\* widths of the objects (the x window of an object is its bounding box
\* with int(dx/2) columns added on each side); every slot is filled over
\* the whole packed depth and height, every object keeps all its voxels in
\* its slot, and x_slice_idxs holds one entry per object, non-decreasing,
\* entry i being the cumulative end of slot i and the last entry the packed
\* width.
C8_PackedShape ==
    (AggrReturned /\ LabelsOf(lab) # {}) =>
        \E objs \in {PackedObjects} : \E sets \in {PackedSets} :
        \E ends \in {Table([i \in 0..Len(sets) |-> CumWidth(sets, i)])} :
        LET n == Len(sets)
        IN /\ aggregated_img.shape =
                 <<Min2(SetMax({Extent(sets[i], 1) + Tol(1) : i \in 1..n}),
                        lab.shape[1]),
                   Min2(SetMax({Extent(sets[i], 2) + Tol(2) : i \in 1..n}),
                        lab.shape[2]),
                   ends[n]>>
           /\ aggregated_lab.shape = aggregated_img.shape
           /\ DOMAIN aggregated_img.at = Voxels(aggregated_img.shape)
           /\ \A v \in DOMAIN aggregated_img.at : aggregated_img.at[v] # 0
           /\ Len(x_slice_idxs) = n
           /\ \A i \in 1..n : x_slice_idxs[i] = ends[i]
           /\ \A i \in 1..(n - 1) : x_slice_idxs[i] <= x_slice_idxs[i + 1]
           /\ x_slice_idxs[n] = aggregated_img.shape[3]
           /\ \A i \in 1..n :
                 Cardinality({v \in DOMAIN aggregated_lab.at :
                     /\ ends[i - 1] <= v[3]
                     /\ v[3] < ends[i]
                     /\ aggregated_lab.at[v] # 0
                     /\ PackedLabel(aggregated_lab.at[v]) = objs[i]})
                 = Cardinality(sets[i])

\* Two objects packed with a tolerance: the window of one is clipped at the
\* volume boundary in x, and the padded depth is capped by the volume depth
C8_Witness ==
    /\ pcAggr = "aggregated"
    /\ Len(x_slice_idxs) = 2
    /\ ~zyx_tolerance.none
    /\ \E i \in 1..2 :
          PaddedWidth(PackedSets[i])
             < Extent(PackedSets[i], 3) + 2 * (Tol(3) \div 2)
    /\ \E i \in 1..2 : Extent(PackedSets[i], 1) + Tol(1) > lab.shape[1]
    /\ aggregated_img.shape[1] = lab.shape[1]
    /\ x_slice_idxs[1] < x_slice_idxs[2]

\* C9 as stated: when the label volume has no foreground, the aggregator
\* returns a zero-sized result and raises no error.
C9_EmptyGivesZeroSized ==
    (AggrRan /\ LabelsOf(lab) = {}) =>
        /\ AggrReturned
        /\ aggregated_img.shape[1] * aggregated_img.shape[2]
              * aggregated_img.shape[3] = 0

\* C10: Lineage merge and re-split. For every mother/bud pair of the
\* lineage table, aggregate_objs raises nothing, packs mother and bud in
\* one slot, and in the returned aggregated label array the voxels of the
\* bud carry the bud's label and the voxels of the mother the mother's
\* label, at the same positions relative to the pair's bounding box.
C10_MergeResplit ==
    (AggrRan /\ BudPairs # {}) =>
        /\ AggrReturned
        /\ Len(x_slice_idxs) =
              Cardinality(LabelsOf(lab)) - Cardinality(BudPairs)
        /\ \A p \in BudPairs :
              LET S == {v \in DOMAIN lab.at : lab.at[v] \in {p[1], p[2]}}
                  A == {v \in DOMAIN aggregated_lab.at :
                           aggregated_lab.at[v] \in {p[1], p[2]}}
              IN /\ Cardinality(A) = Cardinality(S)
                 /\ A # {}
                 /\ \E i \in 1..Len(x_slice_idxs) :
                       \A v \in A : /\ v[3] < x_slice_idxs[i]
                                    /\ i > 1 => x_slice_idxs[i - 1] <= v[3]
                 /\ \A v \in S :
                       \E w \in A :
                          /\ \A a \in 1..3 :
                                w[a] - SetMin({u[a] : u \in A})
                                   = v[a] - SetMin({u[a] : u \in S})
                          /\ aggregated_lab.at[w] = lab.at[v]

\* A bud inside its mother's bounding box, merged, packed with a tolerance
\* and re-split
C10_Witness ==
    /\ pcAggr = "aggregated"
    /\ BudPairs # {}
    /\ ~zyx_tolerance.none
    /\ Len(x_slice_idxs) = 1
    /\ LabelsOf(aggregated_lab) = {1, 2}
    /\ Cardinality({v \in DOMAIN lab.at : lab.at[v] # 0}) > 2

-----------------------------------------------------------------------------
(* transformations.normalise_img                                           *)

\* Voxels of the flattened image and the largest absolute intensity
NormLen == 3
NormMaxVal == 1

\* nan as the rational 0/0
NaN == <<0, 0>>

\* The k-th smallest of the values of the sequence q (k in 1..Len(q))
KthSmallest(q, k) ==
    CHOOSE v \in {q[i] : i \in DOMAIN q} :
        /\ Cardinality({i \in DOMAIN q : q[i] < v}) < k
        /\ Cardinality({i \in DOMAIN q : q[i] <= v}) >= k

\* `img[norm_mask]`: the values under the mask, in raster order
MaskedValues(img, mask) ==
    LET Under(idx) == Table([k \in 1..Len(idx) |-> img[idx[k]]])
    IN Bind(SortedSeq(mask), Under)

\* np.median: the middle value, or the mean of the two middle values; nan
\* (with a RuntimeWarning) of no value
Median(values) ==
    LET Of(q) ==
          LET n == Len(q)
          IN IF n = 0 THEN NaN
             ELSE IF n % 2 = 1 THEN <<KthSmallest(q, (n + 1) \div 2), 1>>
             ELSE <<KthSmallest(q, n \div 2)
                      + KthSmallest(q, n \div 2 + 1), 2>>
    IN Bind(values, Of)

\* `norm_value == 0`; nan compares unequal
IsZero(r) == r[1] = 0 /\ r[2] # 0

\* A call of a Python function of nparams positional parameters without
\* defaults with nargs arguments: TypeError unless they match
PyCall(nparams, nargs, outcome) ==
    IF nargs = nparams THEN outcome ELSE "TypeError"

\* `def _raise_norm_value_zero(self)`, which raises FloatingPointError
_raise_norm_value_zero(nargs) == PyCall(1, nargs, "FloatingPointError")

\* `def _warn_norm_value_zero(self)`, which logs the warning and returns
_warn_norm_value_zero(nargs) == PyCall(1, nargs, "warned")

\* `img/_norm_value` with _norm_value the rational r
DivideBy(img, r) == [i \in DOMAIN img |-> <<img[i] * r[2], r[1]>>]

\* `img/1E-15`: every intensity times ten to the power NearZeroExp
NearZeroExp == 15
DivideByNearZero(img) ==
    [i \in DOMAIN img |-> [mantissa |-> img[i], exp10 |-> NearZeroExp]]

\* normalise_img(img, norm_mask, method='median', raise_if_norm_zero):
\* both helpers are called with no argument
normalise_img(img, mask, raise_if_zero) ==
    LET helper == IF raise_if_zero THEN _raise_norm_value_zero(0)
                  ELSE _warn_norm_value_zero(0)
        With(value) ==
          IF IsZero(value)
          THEN IF helper = "warned"
               THEN [outcome |-> "warned", norm_value |-> value,
                     norm_img |-> DivideByNearZero(img)]
               ELSE [outcome |-> helper, norm_value |-> value,
                     norm_img |-> <<>>]
          ELSE [outcome |-> "returned", norm_value |-> value,
                norm_img |-> DivideBy(img, value)]
    IN Bind(Median(MaskedValues(img, mask)), With)

InitNorm ==
    /\ norm_img \in [1..NormLen -> -NormMaxVal..NormMaxVal]
    /\ norm_mask \in SUBSET (1..NormLen)
    /\ raise_if_norm_zero \in BOOLEAN
    /\ norm_value = <<>>
    /\ norm_out = <<>>
    /\ pcNorm = "call"
    /\ IdleCore
    /\ IdleGop
    /\ IdleFit
    /\ IdleLate

\* One call of normalise_img: it returns (norm_img, norm_value) or raises
NormaliseImg ==
    /\ pcNorm = "call"
    /\ \E r \in {normalise_img(norm_img, norm_mask, raise_if_norm_zero)} :
          \/ /\ r.outcome \in {"returned", "warned"}
             /\ norm_value' = r.norm_value
             /\ norm_out' = r.norm_img
             /\ pcNorm' = r.outcome
          \/ /\ r.outcome \notin {"returned", "warned"}
             /\ pcNorm' = r.outcome
             /\ UNCHANGED <<norm_value, norm_out>>
    /\ UNCHANGED <<norm_img, norm_mask, raise_if_norm_zero>>
    /\ UNCHANGED <<varsCore, varsGop, varsFit, varsLate>>

NextNorm == NormaliseImg

SpecNorm == InitNorm /\ [][NextNorm]_vars

-----------------------------------------------------------------------------
(* C18                                                                     *)

\* The median of the image over the mask is exactly zero
NormValueIsZero == IsZero(Median(MaskedValues(norm_img, norm_mask)))

\* C18: when the normalising value is exactly zero, normalise_img follows the
\* caller's policy: with raise_if_norm_zero it raises FloatingPointError,
\* without it it warns, divides by the near-zero constant and returns the
\* normalised image.
C18_ZeroNormFollowsPolicy ==
    (pcNorm \notin {"idle", "call"} /\ NormValueIsZero) =>
        IF raise_if_norm_zero
        THEN pcNorm = "FloatingPointError"
        ELSE /\ pcNorm = "warned"
             /\ norm_out = DivideByNearZero(norm_img)

-----------------------------------------------------------------------------
(* C19                                                                     *)

\* compute_spots_features has returned or raised
ComputeSpotsFeaturesEnded == pcCoords \in {"computed", "ValueError", "IndexError"}

\* The labels of the objects that contain none of the candidate coordinates
LabelsWithoutSpots == LabelsOf(lab) \ LabelsWithSpots

\* C19: when some object of the label volume contains none of the candidate
\* coordinates, compute_spots_features skips it and still returns the
\* features of the spots of every other object, wherever the empty object
\* stands in the object order.
C19_EmptyObjectSkipped ==
    (/\ ComputeSpotsFeaturesEnded
     /\ LabelsWithoutSpots # {}
     /\ LabelsWithSpots # {}) =>
        /\ pcCoords = "computed"
        /\ {keys[i] : i \in 1..Len(keys)} = LabelsWithSpots
        /\ \A i \in 1..Len(keys) :
              Len(dfs_features[i]) = Len(SpotsInMask(spots_coords, keys[i]))

-----------------------------------------------------------------------------
(* transformations.get_spheroids_maks and pipe._compute_obj_spots_features *)

\* The expanded window of the object is FeatShape; at most FeatSpots spots
FeatX == 3
FeatSpots == 2
FeatShape == <<2, 1, FeatX>>

\* One iteration of the loop of get_spheroids_maks: the voxels that
\* `mask[slice_global_to_local][local_mask] = True` sets.  A boolean index
\* of another shape than the sliced array raises IndexError.
SpheroidAt(center, mask_shape, spot_mask) ==
    LET Place(g, l, gshape, lshape) ==
          IF gshape # lshape THEN [error |-> "IndexError", true |-> {}]
          ELSE [error |-> "",
                true |-> {VecAdd(VecSub(idx, l), g) : idx \in
                            {i \in spot_mask.true :
                               \A a \in 1..3 :
                                  i[a] - l[a] \in 0..(lshape[a] - 1)}}]
        Sliced(sl) ==
          CHOOSE y \in
            {Place(g, l, gshape, lshape) :
               g \in {Table(SliceLo(sl.slice_global_to_local, mask_shape))},
               l \in {Table(SliceLo(sl.slice_crop_local, spot_mask.shape))},
               gshape \in {Table(SliceShape(sl.slice_global_to_local,
                                            mask_shape))},
               lshape \in {Table(SliceShape(sl.slice_crop_local,
                                            spot_mask.shape))}} : TRUE
        Slices(r) == [slice_global_to_local |-> Table(r.slice_global_to_local),
                      slice_crop_local |-> Table(r.slice_crop_local)]
    IN Bind(Slices(get_slices_local_into_global_3D_arr(center, mask_shape,
                                                       spot_mask.shape)),
            Sliced)

\* get_spheroids_maks with min_size_spheroid_mask one mask for all spots
get_spheroids_maks(zyx_coords, mask_shape, spot_mask) ==
    LET United(each) ==
          [error |-> IF \E s \in 1..Len(each) : each[s].error # ""
                     THEN "IndexError" ELSE "",
           shape |-> mask_shape,
           true |-> UNION {each[s].true : s \in 1..Len(each)}]
    IN Bind(Table([s \in 1..Len(zyx_coords) |->
                      SpheroidAt(zyx_coords[s], mask_shape, spot_mask)]),
            United)

\* `img.ravel()` and the raster positions of the True voxels of a mask
Ravel(img) ==
    LET Of(raster) == Table([n \in 1..Len(raster) |-> img.at[raster[n]]])
    IN Bind(Table(RasterVoxels(img.shape)), Of)

RavelMask(mask) ==
    LET Of(raster) == {n \in 1..Len(raster) : raster[n] \in mask.true}
    IN Bind(Table(RasterVoxels(mask.shape)), Of)

\* `backgr_mask[zyx_center[0]]`: the background voxels of one z-plane
BackgrMaskZ(mask, z) == {v \in mask.true : v[1] = z}

\* features.add_distribution_metrics, column
\* background_median_z_slice_spot_detection_image: the median of the
\* sharpened image over the background of the z-plane of the spot
BackgrMedianZ(img, mask, z) ==
    Median(MaskedValues(Ravel(img),
                        RavelMask([shape |-> mask.shape,
                                   true |-> BackgrMaskZ(mask, z)])))

\* The mutant of SpotHasNoBackgr: the background of the whole window is
\* tested instead of that of the z-plane of the spot
NoBackgrAnywhere(mask, z) == mask.true = {}

\* `len(backgr_vals_z_spot) == 0`
SpotHasNoBackgr(mask, z) == BackgrMaskZ(mask, z) = {}

\* The loop over df_obj_spots.itertuples().  acc.sharp_spot_slice_z_transf
\* is the local variable of that name, unbound until an iteration assigns
\* it: the branch of optimise_for_high_spot_density assigns
\* dist_transform_spheroid only, and the read of line 746 then raises
\* UnboundLocalError.  Both callers leave show_progress at True.
RECURSIVE SpotsLoop(_, _, _, _)
SpotsLoop(rows, a, mask, acc) ==
    IF rows = <<>> \/ acc.error # "" THEN acc
    ELSE LET row == Head(rows)
             z == row.zyx[1]
             Loop(next) == SpotsLoop(Tail(rows), a, mask, next)
             transf == IF a.optimise_for_high_spot_density
                       THEN acc.sharp_spot_slice_z_transf
                       ELSE IF a.dist_transform_spheroid.none
                       THEN "sharp_spot_slice_z"
                       ELSE "normalise_spot_by_dist_transf"
         IN IF SpotHasNoBackgr(mask, z)
            THEN Bind([acc EXCEPT
                         !.spot_ids_to_drop = @ \cup {row.spot_id}], Loop)
            ELSE IF transf = "unbound"
            THEN [acc EXCEPT !.error = "UnboundLocalError"]
            ELSE Bind([acc EXCEPT
                         !.sharp_spot_slice_z_transf = transf,
                         !.ttest = Append(@, [spot_id |-> row.spot_id,
                                              intensities |-> transf]),
                         !.df = Append(@, [row EXCEPT !.background_median_z =
                                   BackgrMedianZ(a.sharp_spots_img_obj, mask,
                                                 z)])], Loop)

\* The mutant of BackgrOutside: the spheroids are not taken out
BackgrKeepsSpheroids(base, spheroids_mask) == base.true

\* `np.logical_and(obj_mask, ~spheroids_mask)`
BackgrOutside(base, spheroids_mask) == base.true \ spheroids_mask.true

\* _compute_obj_spots_features(spots_img_obj, df_obj_spots, obj_mask,
\* sharp_spots_img_obj, ...), with the arguments in the record a.  The
\* result holds the returned table, or the error raised, and the local
\* variables backgr_mask and the intensities handed to add_ttest_values
\* and add_effect_sizes.
_compute_obj_spots_features(a) ==
    LET local_peaks_coords == [k \in 1..Len(a.df_obj_spots) |->
                                  a.df_obj_spots[k].zyx]
        base == IF a.get_backgr_from_inside_ref_ch_mask
                THEN a.ref_ch_mask_obj.val ELSE a.obj_mask
        raised(e, mask) == [outcome |-> e, backgr_mask |-> mask,
                            df |-> <<>>, ttest |-> <<>>]
        Rows(mask) ==
          LET Ended(acc) ==
                IF acc.error # ""
                THEN [outcome |-> acc.error, backgr_mask |-> mask,
                      df |-> <<>>, ttest |-> acc.ttest]
                ELSE [outcome |-> "returned", backgr_mask |-> mask,
                      df |-> acc.df, ttest |-> acc.ttest]
          IN Bind(SpotsLoop(a.df_obj_spots, a, mask,
                            [spot_ids_to_drop |-> {}, ttest |-> <<>>,
                             df |-> <<>>, error |-> "",
                             sharp_spot_slice_z_transf |-> "unbound"]),
                  Ended)
        NormSpots(mask) ==
          LET With(norm) ==
                IF norm \notin {"returned", "warned"} THEN raised(norm, mask)
                ELSE Rows(mask)
          IN Bind(IF a.get_backgr_from_inside_ref_ch_mask
                  THEN normalise_img(Ravel(a.spots_img_obj),
                                     RavelMask(mask), TRUE).outcome
                  ELSE "returned", With)
        NormRef(mask) ==
          LET With(norm) ==
                IF norm \notin {"returned", "warned"} THEN raised(norm, mask)
                ELSE NormSpots(mask)
          IN Bind(IF a.get_backgr_from_inside_ref_ch_mask
                  THEN normalise_img(Ravel(a.ref_ch_img_obj.val),
                                     RavelMask(mask), FALSE).outcome
                  ELSE "returned", With)
        Backgr(spheroids) ==
          IF spheroids.error # ""
          THEN raised(spheroids.error, <<>>)
          ELSE Bind([shape |-> a.obj_mask.shape,
                     true |-> BackgrOutside(base, spheroids)], NormRef)
    IN Bind(get_spheroids_maks(local_peaks_coords, a.obj_mask.shape,
                               a.min_size_spheroid_mask), Backgr)

-----------------------------------------------------------------------------
(* pipe.spots_calc_features_and_filter: the goodness-of-peak loop of one   *)
(* object                                                                  *)

\* filters.filter_spots_from_features_thresholds with one thresholded
\* feature: a spot is dropped when its value lies below the minimum or
\* above the maximum; None leaves that side unbounded
WithinThresholds(value, thresholds) ==
    /\ thresholds.min.none \/ value[1] >= thresholds.min.val * value[2]
    /\ thresholds.max.none \/ value[1] <= thresholds.max.val * value[2]

filter_spots_from_features_thresholds(df, thresholds) ==
    SelectSeq(df, LAMBDA row :
                     WithinThresholds(row.background_median_z, thresholds))

\* The mutant of GopStops: the loop stops after every iteration
GopStopsAlways(num_spots_filtered, num_spots_prev) == TRUE

\* The mutant of GopStops: the loop also stops when a single spot is left
GopStopsAtOne(num_spots_filtered, num_spots_prev) ==
    num_spots_filtered = num_spots_prev \/ num_spots_filtered <= 1

\* `if num_spots_filtered == num_spots_prev or num_spots_filtered == 0:
\* break`
GopStops(num_spots_filtered, num_spots_prev) ==
    num_spots_filtered = num_spots_prev \/ num_spots_filtered = 0

\* `local_ref_ch_mask = np.logical_and(ref_ch_mask_or_labels[obj_slice]>0,
\* obj_image)`
LocalRefChMask(ref_ch_mask, obj_mask) ==
    [shape |-> obj_mask.shape, true |-> ref_ch_mask.true \cap obj_mask.true]

\* The boolean volume that is True inside the box
BoxMask(shape, box) ==
    [shape |-> shape, true |-> {v \in Voxels(shape) : InBox(v, box)}]

\* The table of the detected spots of the object: one row per spot centre,
\* in raster order, spot_id counting from 1
SpotsTable(centres) ==
    LET q == SelectSeq(RasterVoxels(FeatShape), LAMBDA v : v \in centres)
    IN [k \in 1..Len(q) |->
          [spot_id |-> k, zyx |-> q[k], background_median_z |-> NaN]]

\* The images: the x coordinate of the voxel, or the product of its z and
\* x coordinates (the first plane is all zero)
FeatImages ==
    {[shape |-> FeatShape, at |-> Table([v \in Voxels(FeatShape) |-> v[3]])],
     [shape |-> FeatShape,
      at |-> Table([v \in Voxels(FeatShape) |-> v[1] * v[3]])]}

\* The reference-channel masks: the first plane or the first column
RefChMasks ==
    {BoxMask(FeatShape, <<<<0, 1>>, <<0, FeatShape[2]>>, <<0, FeatShape[3]>>>>),
     BoxMask(FeatShape, <<<<0, FeatShape[1]>>, <<0, FeatShape[2]>>, <<0, 1>>>>)}

\* The thresholds on background_median_z_slice_spot_detection_image
GopThresholds ==
    {[min |-> None, max |-> None],
     [min |-> Just(1), max |-> None],
     [min |-> None, max |-> Just(0)]}

\* The spot radii: a flat mask of one plane, and a mask of five planes that
\* holds the centre column only
FeatRadii == {<<<<0, 1>>, <<1, 1>>, <<1, 1>>>>, <<<<2, 1>>, <<1, 2>>, <<1, 2>>>>}

\* The state when spots_calc_features_and_filter enters the `while True` of
\* an object that has spots: keep_only_spots_in_ref_ch is False,
\* use_spots_segm_masks is False, sharp_spots_image is None (the image
\* itself), and with optimise_for_high_spot_density the distance transform
\* of the spheroid mask has been computed (lines 1238-1241)
InitGop ==
    /\ obj_image \in {BoxMask(FeatShape, b) : b \in Boxes(FeatShape)}
    /\ local_spots_img \in FeatImages
    /\ local_ref_ch_mask \in
          {None} \cup {Just(LocalRefChMask(m, obj_image)) : m \in RefChMasks}
    /\ get_backgr_from_inside_ref_ch_mask \in
          IF local_ref_ch_mask.none THEN {FALSE} ELSE BOOLEAN
    /\ local_ref_ch_img \in
          IF local_ref_ch_mask.none THEN {None}
          ELSE IF get_backgr_from_inside_ref_ch_mask
          THEN {Just(img) : img \in FeatImages}
          ELSE {Just(local_spots_img)}
    /\ optimise_for_high_spot_density \in BOOLEAN
    /\ dist_transform_spheroid \in
          IF optimise_for_high_spot_density
          THEN {Just("norm_distance_transform_edt")}
          ELSE {None, Just("norm_distance_transform_edt")}
    /\ gop_filtering_thresholds \in GopThresholds
    /\ spots_zyx_radii_pxl \in FeatRadii
    /\ min_size_spheroid_mask = get_local_spheroid_mask(spots_zyx_radii_pxl)
    /\ df_obj_spots_det \in
          {SpotsTable(c) : c \in {c \in SUBSET obj_image.true :
                                    Cardinality(c) \in 1..FeatSpots}}
    /\ df_obj_spots_gop = df_obj_spots_det
    /\ dfs_spots_det = <<df_obj_spots_det>>
    /\ dfs_spots_gop = <<>>
    /\ backgr_mask = <<>>
    /\ pass_input = <<>>
    /\ pass_output = <<>>
    /\ ttest_inputs = <<>>
    /\ gop_i = 0
    /\ gop_info = [start_num_spots |-> Len(df_obj_spots_det)]
    /\ first_run = [ran |-> FALSE]
    /\ pcGop = "while"
    /\ IdleSlices
    /\ detect_image_ndim = 0
    /\ spot_footprint = <<>>
    /\ pcMask = "idle"
    /\ IdleCoords
    /\ IdleAggr
    /\ IdleNorm
    /\ IdleFit
    /\ IdleLate

\* The mutant of GopArgs: every pass is given the detected spots instead
\* of the survivors of the previous iteration
GopArgsDetected ==
    [spots_img_obj |-> local_spots_img,
     df_obj_spots |-> df_obj_spots_det,
     obj_mask |-> obj_image,
     sharp_spots_img_obj |-> local_spots_img,
     min_size_spheroid_mask |-> min_size_spheroid_mask,
     dist_transform_spheroid |-> dist_transform_spheroid,
     optimise_for_high_spot_density |-> optimise_for_high_spot_density,
     ref_ch_mask_obj |-> local_ref_ch_mask,
     ref_ch_img_obj |-> local_ref_ch_img,
     get_backgr_from_inside_ref_ch_mask |->
         get_backgr_from_inside_ref_ch_mask]

\* The arguments of the call of lines 1331-1346
GopArgs ==
    [spots_img_obj |-> local_spots_img,
     df_obj_spots |-> df_obj_spots_gop,
     obj_mask |-> obj_image,
     sharp_spots_img_obj |-> local_spots_img,
     min_size_spheroid_mask |-> min_size_spheroid_mask,
     dist_transform_spheroid |-> dist_transform_spheroid,
     optimise_for_high_spot_density |-> optimise_for_high_spot_density,
     ref_ch_mask_obj |-> local_ref_ch_mask,
     ref_ch_img_obj |-> local_ref_ch_img,
     get_backgr_from_inside_ref_ch_mask |->
         get_backgr_from_inside_ref_ch_mask]

\* One iteration of the `while True` of lines 1320-1368 and, when it breaks,
\* the statements after the loop (lines 1370-1373).  The table is not empty
\* when an iteration starts (keep_only_spots_in_ref_ch is False), so the
\* break of line 1322 is not taken.
GopIteration ==
    /\ pcGop = "while"
    /\ \E num_spots_prev \in {Len(df_obj_spots_gop)} :
       \E r \in {_compute_obj_spots_features(GopArgs)} :
       \E filtered \in {filter_spots_from_features_thresholds(
                            r.df, gop_filtering_thresholds)} :
          \/ /\ r.outcome # "returned"
             /\ pcGop' = r.outcome
             /\ backgr_mask' = r.backgr_mask
             /\ pass_input' = df_obj_spots_gop
             /\ pass_output' = <<>>
             /\ ttest_inputs' = r.ttest
             /\ UNCHANGED <<df_obj_spots_gop, dfs_spots_det, dfs_spots_gop,
                            gop_i, gop_info>>
          \/ /\ r.outcome = "returned"
             /\ backgr_mask' = r.backgr_mask
             /\ pass_input' = df_obj_spots_gop
             /\ pass_output' = r.df
             /\ ttest_inputs' = r.ttest
             /\ dfs_spots_det' = IF gop_i = 0 THEN <<r.df>> ELSE dfs_spots_det
             /\ df_obj_spots_gop' = filtered
             /\ \/ /\ GopStops(Len(filtered), num_spots_prev)
                   /\ gop_info' = [start_num_spots |-> gop_info.start_num_spots,
                                   end_num_spots |-> Len(filtered),
                                   num_iter |-> gop_i]
                   /\ dfs_spots_gop' = <<filtered>>
                   /\ pcGop' = "done"
                   /\ UNCHANGED gop_i
                \/ /\ ~GopStops(Len(filtered), num_spots_prev)
                   /\ gop_i' = gop_i + 1
                   /\ pcGop' = "while"
                   /\ UNCHANGED <<gop_info, dfs_spots_gop>>
    /\ UNCHANGED <<obj_image, local_spots_img, local_ref_ch_mask,
                   local_ref_ch_img, optimise_for_high_spot_density,
                   dist_transform_spheroid,
                   get_backgr_from_inside_ref_ch_mask,
                   gop_filtering_thresholds, df_obj_spots_det, first_run>>
    /\ UNCHANGED <<varsCore, varsNorm, varsFit, varsLate>>

\* spots_calc_features_and_filter is called again, with the same images,
\* masks and thresholds, on the spots it returned as valid
GopRunAgain ==
    /\ pcGop = "done"
    /\ ~first_run.ran
    /\ dfs_spots_gop[1] # <<>>
    /\ first_run' = [ran |-> TRUE, df |-> dfs_spots_gop[1], info |-> gop_info]
    /\ df_obj_spots_det' = SpotsTable({dfs_spots_gop[1][k].zyx :
                                          k \in 1..Len(dfs_spots_gop[1])})
    /\ df_obj_spots_gop' = df_obj_spots_det'
    /\ dfs_spots_det' = <<df_obj_spots_det'>>
    /\ dfs_spots_gop' = <<>>
    /\ gop_i' = 0
    /\ gop_info' = [start_num_spots |-> Len(df_obj_spots_det')]
    /\ pcGop' = "while"
    /\ UNCHANGED <<obj_image, local_spots_img, local_ref_ch_mask,
                   local_ref_ch_img, optimise_for_high_spot_density,
                   dist_transform_spheroid,
                   get_backgr_from_inside_ref_ch_mask,
                   gop_filtering_thresholds, backgr_mask, pass_input,
                   pass_output, ttest_inputs>>
    /\ UNCHANGED <<varsCore, varsNorm, varsFit, varsLate>>

NextGop == GopIteration \/ GopRunAgain

SpecGop == InitGop /\ [][NextGop]_vars

\* The objects whose background never comes from inside the reference
\* channel mask (get_backgr_from_inside_ref_ch_mask False, the default)
InitGopFair ==
    /\ InitGop
    /\ ~get_backgr_from_inside_ref_ch_mask

\* The loop is sequential code: an iteration that can run does run
FairSpecGop == InitGopFair /\ [][NextGop]_vars /\ WF_vars(GopIteration)

-----------------------------------------------------------------------------
(* C11                                                                     *)

\* A feature-extraction pass has computed its background mask
PassRan == pass_input # <<>>

\* The voxels of the window inside the spheroid mask centred on c: the mask
\* is laid with its middle voxel on c and what sticks out of the window is
\* cut off
SpheroidOf(c) ==
    {v \in Voxels(FeatShape) :
        <<v[1] - c[1] + (min_size_spheroid_mask.shape[1] \div 2),
          v[2] - c[2] + (min_size_spheroid_mask.shape[2] \div 2),
          v[3] - c[3] + (min_size_spheroid_mask.shape[3] \div 2)>>
            \in min_size_spheroid_mask.true}

\* The mask the background is taken from
BackgrBase ==
    IF get_backgr_from_inside_ref_ch_mask
    THEN local_ref_ch_mask.val.true \cap obj_image.true
    ELSE obj_image.true

-----------------------------------------------------------------------------
(* C12                                                                     *)

\* The last feature-extraction pass returned its table
PassReturned == PassRan /\ pcGop \in {"while", "done"}

\* The spots of the table whose z-plane holds no background voxel
SpotsWithoutBackgr ==
    {pass_input[k].spot_id : k \in
        {k \in 1..Len(pass_input) :
            \A v \in backgr_mask.true : v[1] # pass_input[k].zyx[1]}}

SpotIds(df) == {df[k].spot_id : k \in 1..Len(df)}

\* C12: the spots that one feature-extraction pass returns are the spots it
\* was given minus exactly those whose background mask is empty on their own
\* z-plane: these are dropped without raising (a pass that drops all of its
\* spots returns), all others are kept with their coordinates, and no row
\* is added.
C12_DropsEmptyBackground ==
    /\ PassReturned =>
          /\ SpotIds(pass_output) = SpotIds(pass_input) \ SpotsWithoutBackgr
          /\ Len(pass_output) = Cardinality(SpotIds(pass_output))
          /\ \A k \in 1..Len(pass_output) :
                \E j \in 1..Len(pass_input) :
                    /\ pass_input[j].spot_id = pass_output[k].spot_id
                    /\ pass_input[j].zyx = pass_output[k].zyx
    /\ (/\ PassRan
        /\ SpotsWithoutBackgr = SpotIds(pass_input)
        /\ ~get_backgr_from_inside_ref_ch_mask) => PassReturned

\* A pass that dropped one spot and kept another
C12_Witness ==
    /\ PassReturned
    /\ SpotsWithoutBackgr # {}
    /\ pass_output # <<>>
    /\ Len(pass_output) < Len(pass_input)

-----------------------------------------------------------------------------
(* C13                                                                     *)

\* The spots of the table that have background on their z-plane
SpotsWithBackgr == SpotIds(pass_input) \ SpotsWithoutBackgr

\* C13: with optimise_for_high_spot_density, feature extraction completes
\* for every spot, and the intensities handed to the t-test and the effect
\* sizes of spot against background are the sharpened intensities weighted
\* by the normalised distance transform of the spheroid mask.
C13_HighDensityWeighted ==
    (/\ PassRan
     /\ optimise_for_high_spot_density
     /\ pcGop # "TypeError") =>
        /\ PassReturned
        /\ {t.spot_id : t \in {ttest_inputs[k] : k \in 1..Len(ttest_inputs)}}
              = SpotsWithBackgr
        /\ \A k \in 1..Len(ttest_inputs) :
              ttest_inputs[k].intensities = "normalise_spot_by_dist_transf"

-----------------------------------------------------------------------------
(* C14                                                                     *)

\* An iteration of the loop that raised nothing
GopIterated == pcGop = "while" /\ pcGop' \in {"while", "done"}

\* The iteration counter stays below the starting count, and so does the
\* recorded number of iterations
GopIterationsBounded ==
    /\ gop_i < gop_info.start_num_spots
    /\ pcGop = "done" =>
          /\ gop_info.num_iter = gop_i
          /\ gop_info.num_iter < gop_info.start_num_spots
          /\ gop_info.end_num_spots = Len(dfs_spots_gop[1])
          /\ gop_info.end_num_spots <= gop_info.start_num_spots

\* One iteration never adds a spot; it ends the loop exactly when the
\* surviving count is unchanged or zero, and otherwise counts one more
\* iteration over strictly fewer spots
GopIterationShrinks ==
    GopIterated =>
        /\ Len(df_obj_spots_gop') <= Len(df_obj_spots_gop)
        /\ pcGop' = "done" <=>
              \/ Len(df_obj_spots_gop') = Len(df_obj_spots_gop)
              \/ Len(df_obj_spots_gop') = 0
        /\ pcGop' = "while" => gop_i' = gop_i + 1

\* C14: the goodness-of-peak loop never increases the number of spots from
\* one iteration to the next and terminates: it stops at the first
\* iteration whose surviving count is unchanged or zero, and the recorded
\* number of iterations is smaller than the starting number of spots.
C14_GopTerminates ==
    /\ []GopIterationsBounded
    /\ [][GopIterationShrinks]_vars
    /\ [](pcGop = "while" => <>(pcGop # "while"))

\* A loop that ran a further iteration and ended with a spot left
C14_Witness ==
    /\ pcGop = "done"
    /\ ~first_run.ran
    /\ gop_info.num_iter >= 1
    /\ gop_info.end_num_spots >= 1

-----------------------------------------------------------------------------
(* C15                                                                     *)

\* The coordinates of the spots of a table
SpotCoords(df) == {df[k].zyx : k \in 1..Len(df)}

\* The second call has returned
GopRanAgain == first_run.ran /\ pcGop = "done"

\* C15: running spots_calc_features_and_filter again, with the same images,
\* object masks and thresholds, on the spots it returned as valid returns
\* the same set of spots: the second call raises nothing, drops nothing and
\* records zero further iterations.
C15_GopIdempotent ==
    /\ first_run.ran => pcGop \in {"while", "done"}
    /\ GopRanAgain =>
          /\ SpotCoords(dfs_spots_gop[1]) = SpotCoords(first_run.df)
          /\ Len(dfs_spots_gop[1]) = Len(first_run.df)
          /\ gop_info.start_num_spots = first_run.info.end_num_spots
          /\ gop_info.end_num_spots = gop_info.start_num_spots
          /\ gop_info.num_iter = 0

\* A second call on the spots of a first call that dropped a spot and went
\* through a further iteration
C15_Witness ==
    /\ GopRanAgain
    /\ first_run.info.num_iter >= 1
    /\ first_run.info.end_num_spots < first_run.info.start_num_spots
    /\ Len(dfs_spots_gop[1]) >= 1

-----------------------------------------------------------------------------
(* pipe.spotfit: spots along one line of the image, z = y = 0              *)

FitX == 3
FitObjs == 2
FitSpots == 2
MaxFitIter == 2

\* The objects of rp, in order
FitLabels == 1..FitObjs

\* kernel.fit(): df_spotFIT_ID holds one row per spot of df_spots_obj, with
\* the refined coordinate of the spot next to its detected coordinate; the
\* optimiser may settle on the detected voxel or on the next one
KernelFit(df) ==
    {[k \in 1..Len(df) |->
         [spot_id |-> df[k].spot_id, x |-> df[k].x, x_fit |-> df[k].x + o[k]]] :
       o \in {o \in [1..Len(df) -> {0, 1}] :
                 \A k \in 1..Len(df) : df[k].x + o[k] < FitX}}

\* Two refined coordinates are closer than the minimum distance: the
\* ellipsoid test with the x radius
TooClose(x1, x2, radii) ==
    (x1 - x2) * (x1 - x2) * radii[3][2] * radii[3][2]
        < radii[3][1] * radii[3][1]

\* The rows of the table by descending intensity, ties in table order
ByIntensity(df, intensities) ==
    LET n == Len(df)
        top == SetMax({intensities[k] : k \in 1..n} \cup {0})
        ranked == SortedSeq({(top - intensities[k]) * (n + 1) + k :
                               k \in 1..n})
    IN [j \in 1..n |-> ranked[j] % (n + 1)]

RECURSIVE KeepValid(_, _, _, _, _)
KeepValid(df, order, j, radii, valid) ==
    IF j > Len(order) THEN valid
    ELSE LET x == df[order[j]].x_fit
         IN KeepValid(df, order, j + 1, radii,
                IF \E v \in 1..Len(valid) : TooClose(x, valid[v], radii)
                THEN valid ELSE Append(valid, x))

\* filters.filter_valid_points_min_distance: among the refined coordinates
\* closer to each other than the minimum distance only the brightest stays
filter_valid_points_min_distance(df, radii, intensities) ==
    KeepValid(df, ByIntensity(df, intensities), 1, radii, <<>>)

\* `intensities = spots_img[tuple(fit_coords_int.transpose())]`
FitIntensities(df, img) == [k \in 1..Len(df) |-> img[df[k].x_fit]]

\* The mutant of RowsAtFitCoords: one row for each valid coordinate
FirstRowAtFitCoords(df, valid) ==
    SelectSeq(df, LAMBDA row :
        /\ \E v \in 1..Len(valid) : valid[v] = row.x_fit
        /\ \A k \in 1..Len(df) :
              df[k].x_fit = row.x_fit => df[k].spot_id >= row.spot_id)

\* `.set_index(ZYX_FIT_COLS).loc[filter_zyx_index]`, back on the spot index
\* and sorted: every row of df_spotFIT_ID whose refined coordinate is one of
\* the valid coordinates
RowsAtFitCoords(df, valid) ==
    SelectSeq(df, LAMBDA row : \E v \in 1..Len(valid) : valid[v] = row.x_fit)

\* `[non_spotfit_cols]`: the columns the table had before the fit
NonSpotfitCols(df) ==
    [k \in 1..Len(df) |-> [spot_id |-> df[k].spot_id, x |-> df[k].x]]

\* The mutant of ChangedObjects: every object is listed
AllObjects(info) == info

\* `if start_num_spots == end_num_spots: continue`
ChangedObjects(info) ==
    SelectSeq(info, LAMBDA e : e.start_num_spots # e.end_num_spots)

\* _log_filtered_number_spots: what is handed to logger_func. Nothing when
\* verbose is False; otherwise one line `Object ID {ID} = {start} --> {end}
\* ({num_iter} iterations)` per listed object, or 'All spots were valid'
_log_filtered_number_spots(verbose_arg, info) ==
    IF ~verbose_arg THEN None
    ELSE LET num_spots_filtered_log == ChangedObjects(info)
         IN IF num_spots_filtered_log # <<>>
            THEN Just([lines |-> num_spots_filtered_log])
            ELSE Just([lines |-> <<>>, info |-> "All spots were valid"])

\* The tables of the detected spots of the objects: `obj.label not in
\* df_spots.index` is the empty table
FitTables ==
    {[k \in 1..Len(q) |-> [spot_id |-> k, x |-> q[k]]] :
       q \in {SortedSeq(c) : c \in {c \in SUBSET (0..(FitX - 1)) :
                                      Cardinality(c) <= FitSpots}}}

\* The images along the line: flat, or increasing with x
FitImages == {[x \in 0..(FitX - 1) |-> 1], [x \in 0..(FitX - 1) |-> x + 1]}

\* The minimum distances: an x radius of 1 or of 2
FitRadii == {<<<<1, 1>>, <<1, 1>>, <<1, 1>>>>, <<<<1, 1>>, <<2, 1>>, <<2, 1>>>>}

\* spotfit at the `for obj in rp` of line 1631
InitFit ==
    /\ df_spots \in [FitLabels -> FitTables]
    /\ spots_img \in FitImages
    /\ spots_zyx_radii_pxl \in FitRadii
    /\ drop_peaks_too_close \in BOOLEAN
    /\ verbose \in BOOLEAN
    /\ obj_i = 0
    /\ df_spots_obj = <<>>
    /\ fit_i = 0
    /\ prev_num_spots = 0
    /\ num_spots = None
    /\ df_spotFIT_ID = <<>>
    /\ dfs_spots_spotfit = <<>>
    /\ dfs_spots_spotfit_iter0 = <<>>
    /\ fit_keys = <<>>
    /\ filtered_spots_info = <<>>
    /\ logged = None
    /\ pcFit = "for"
    /\ IdleSlices
    /\ IdleMask
    /\ IdleCoords
    /\ IdleAggr
    /\ IdleNorm
    /\ IdleGop
    /\ IdleLate

\* `if obj.label not in df_spots.index: continue`
FitSkipObj ==
    /\ pcFit = "for"
    /\ obj_i < FitObjs
    /\ df_spots[obj_i + 1] = <<>>
    /\ obj_i' = obj_i + 1
    /\ UNCHANGED <<df_spots, spots_img, drop_peaks_too_close, verbose,
                   df_spots_obj, fit_i, prev_num_spots, num_spots,
                   df_spotFIT_ID, dfs_spots_spotfit, dfs_spots_spotfit_iter0,
                   fit_keys, filtered_spots_info, logged, pcFit>>
    /\ UNCHANGED <<varsCore, varsNorm, varsGop, varsLate>>

\* Lines 1634-1638: the table of the object, its starting count, `i = 0`
FitEnterObj ==
    /\ pcFit = "for"
    /\ obj_i < FitObjs
    /\ df_spots[obj_i + 1] # <<>>
    /\ df_spots_obj' = df_spots[obj_i + 1]
    /\ filtered_spots_info' =
          Append(filtered_spots_info,
                 [ID |-> obj_i + 1,
                  start_num_spots |-> Len(df_spots[obj_i + 1])])
    /\ fit_i' = 0
    /\ pcFit' = "while"
    /\ UNCHANGED <<df_spots, spots_img, drop_peaks_too_close, verbose, obj_i,
                   prev_num_spots, num_spots, df_spotFIT_ID,
                   dfs_spots_spotfit, dfs_spots_spotfit_iter0, fit_keys,
                   logged>>
    /\ UNCHANGED <<varsCore, varsNorm, varsGop, varsLate>>

\* Lines 1706-1711 after a `break` that leaves num_spots at n and the
\* kernel's table at fitted: num_spots is read, bound or not
FitAfterLoop(n, fitted) ==
    IF n.none
    THEN /\ pcFit' = "UnboundLocalError"
         /\ UNCHANGED <<filtered_spots_info, dfs_spots_spotfit, fit_keys,
                        obj_i>>
    ELSE /\ filtered_spots_info' =
               [filtered_spots_info EXCEPT ![Len(filtered_spots_info)] =
                   [ID |-> @.ID, start_num_spots |-> @.start_num_spots,
                    end_num_spots |-> n.val, num_iter |-> fit_i]]
         /\ dfs_spots_spotfit' = Append(dfs_spots_spotfit, fitted)
         /\ fit_keys' = Append(fit_keys, obj_i + 1)
         /\ obj_i' = obj_i + 1
         /\ pcFit' = "for"

\* One pass of the `while True` of lines 1639-1704, and what follows the
\* loop when the pass leaves it
FitPass ==
    /\ pcFit = "while"
    /\ fit_i <= MaxFitIter
    /\ prev_num_spots' = Len(df_spots_obj)
    /\ \E fitted \in KernelFit(df_spots_obj) :
       \E valid_fit_coords \in {filter_valid_points_min_distance(
                                   fitted, spots_zyx_radii_pxl,
                                   FitIntensities(fitted, spots_img))} :
          /\ dfs_spots_spotfit_iter0' =
                IF fit_i = 0 THEN Append(dfs_spots_spotfit_iter0, fitted)
                ELSE dfs_spots_spotfit_iter0
          /\ \/ /\ ~drop_peaks_too_close
                /\ df_spotFIT_ID' = fitted
                /\ FitAfterLoop(num_spots, fitted)
                /\ UNCHANGED <<num_spots, df_spots_obj, fit_i>>
             \/ /\ drop_peaks_too_close
                /\ Len(valid_fit_coords) = Len(df_spots_obj)
                /\ num_spots' = Just(Len(valid_fit_coords))
                /\ df_spotFIT_ID' = fitted
                /\ FitAfterLoop(num_spots', fitted)
                /\ UNCHANGED <<df_spots_obj, fit_i>>
             \* `if num_spots == 0`: the brightest spot always stays, so
             \* no table with spots takes this branch
             \/ /\ drop_peaks_too_close
                /\ Len(valid_fit_coords) # Len(df_spots_obj)
                /\ Len(valid_fit_coords) = 0
                /\ num_spots' = Just(0)
                /\ df_spotFIT_ID' = <<>>
                /\ FitAfterLoop(num_spots', <<>>)
                /\ UNCHANGED <<df_spots_obj, fit_i>>
             \/ /\ drop_peaks_too_close
                /\ Len(valid_fit_coords) # Len(df_spots_obj)
                /\ Len(valid_fit_coords) # 0
                /\ num_spots' = Just(Len(valid_fit_coords))
                /\ df_spotFIT_ID' = fitted
                /\ df_spots_obj' =
                      NonSpotfitCols(RowsAtFitCoords(fitted, valid_fit_coords))
                /\ fit_i' = fit_i + 1
                /\ UNCHANGED <<filtered_spots_info, dfs_spots_spotfit,
                               fit_keys, obj_i, pcFit>>
    /\ UNCHANGED <<df_spots, spots_img, drop_peaks_too_close, verbose, logged>>
    /\ UNCHANGED <<varsCore, varsNorm, varsGop, varsLate>>

\* Lines 1716-1721: the report and the return
FitReturn ==
    /\ pcFit = "for"
    /\ obj_i = FitObjs
    /\ logged' = _log_filtered_number_spots(verbose, filtered_spots_info)
    /\ pcFit' = "done"
    /\ UNCHANGED <<df_spots, spots_img, drop_peaks_too_close, verbose, obj_i,
                   df_spots_obj, fit_i, prev_num_spots, num_spots,
                   df_spotFIT_ID, dfs_spots_spotfit, dfs_spots_spotfit_iter0,
                   fit_keys, filtered_spots_info>>
    /\ UNCHANGED <<varsCore, varsNorm, varsGop, varsLate>>

NextFit == FitSkipObj \/ FitEnterObj \/ FitPass \/ FitReturn

SpecFit == InitFit /\ [][NextFit]_vars

-----------------------------------------------------------------------------
(* C16                                                                     *)

\* The spot ids of a table of spotfit
FitSpotIds(df) == {df[k].spot_id : k \in 1..Len(df)}

\* What one pass of the drop-peaks-too-close loop does to the table: it
\* stops with every fitted spot, stops with an empty table, or goes on
\* with strictly fewer spots than it fitted
FitPassShrinks ==
    (pcFit = "while" /\ drop_peaks_too_close /\ pcFit' # "while"
        => \/ /\ pcFit' = "for"
              /\ Len(df_spotFIT_ID') = Len(df_spots_obj)
              /\ num_spots' = Just(Len(df_spots_obj))
           \/ /\ pcFit' = "for"
              /\ df_spotFIT_ID' = <<>>
              /\ num_spots' = Just(0))
    /\ (pcFit = "while" /\ drop_peaks_too_close /\ pcFit' = "while"
        => /\ Len(df_spots_obj') < Len(df_spotFIT_ID')
           /\ Len(df_spotFIT_ID') = Len(df_spots_obj)
           /\ FitSpotIds(df_spots_obj') \subseteq FitSpotIds(df_spots_obj))

\* C16: each pass of the drop-peaks-too-close loop of spotfit either keeps
\* all fitted spots and stops, keeps none and stops with an empty table, or
\* continues with strictly fewer spots than were fitted in that pass, also
\* when two spots have identical refined fit coordinates.
C16_DropLoopShrinks == [][FitPassShrinks]_vars

-----------------------------------------------------------------------------
(* C17                                                                     *)

\* The objects that have spots, in the order of rp
FitObjsWithSpots ==
    SelectSeq([k \in 1..FitObjs |-> k], LAMBDA ID : df_spots[ID] # <<>>)

\* C17: with drop_peaks_too_close=False spotfit completes without error,
\* fits every object that has spots exactly once and returns for each such
\* object a table with all of its input spots: dfs_spots_spotfit and
\* dfs_spots_spotfit_iter0 hold the same spots and keys has one entry per
\* returned table.
C17_DefaultFitsOnce ==
    ~drop_peaks_too_close =>
        /\ pcFit \in {"for", "while", "done"}
        /\ pcFit = "done" =>
              /\ fit_keys = FitObjsWithSpots
              /\ Len(dfs_spots_spotfit) = Len(fit_keys)
              /\ dfs_spots_spotfit = dfs_spots_spotfit_iter0
              /\ \A k \in 1..Len(fit_keys) :
                    NonSpotfitCols(dfs_spots_spotfit[k])
                        = df_spots[fit_keys[k]]

-----------------------------------------------------------------------------
(* C20                                                                     *)

\* The line of the report about the k-th returned table
FitReportLine(k) ==
    [ID |-> fit_keys[k],
     start_num_spots |-> Len(df_spots[fit_keys[k]]),
     end_num_spots |-> Len(dfs_spots_spotfit[k]),
     num_iter |-> filtered_spots_info[k].num_iter]

\* The returned tables, in order
FitReturned == [k \in 1..Len(fit_keys) |-> k]

-----------------------------------------------------------------------------
(* C24                                                                     *)

\* The index of the center voxel of the mask
MaskCenter(mask) == [a \in 1..3 |-> mask.shape[a] \div 2]

\* The voxel opposite to idx through the center
Mirrored(mask, idx) == [a \in 1..3 |-> 2 * MaskCenter(mask)[a] - idx[a]]

PointSymmetric(mask) ==
    \A idx \in IndexSet(mask.shape) :
        idx \in mask.true <=> Mirrored(mask, idx) \in mask.true

\* C24 as stated: for any radii triple the mask is point-symmetric about
\* its center voxel and the center voxel is true.
C24_SymmetricCenterTrue ==
    pcMask = "done" =>
        /\ PointSymmetric(min_size_spheroid_mask)
        /\ MaskCenter(min_size_spheroid_mask) \in min_size_spheroid_mask.true

\* C24, amended: for any radii triple every axis of the mask has odd length
\* and the mask is point-symmetric about its center voxel; the center voxel
\* is true exactly when yr > 0, and with yr = 0 no voxel is true.
C24_PointSymmetric ==
    pcMask = "done" =>
        /\ \A a \in 1..3 : min_size_spheroid_mask.shape[a] % 2 = 1
        /\ PointSymmetric(min_size_spheroid_mask)
        /\ MaskCenter(min_size_spheroid_mask) \in min_size_spheroid_mask.true
              <=> RIsPos(spots_zyx_radii_pxl[2])
        /\ ~RIsPos(spots_zyx_radii_pxl[2]) => min_size_spheroid_mask.true = {}

\* A mask of five planes with true voxels away from the center and false
\* voxels in its corners
C24_Witness ==
    /\ pcMask = "done"
    /\ min_size_spheroid_mask.shape[1] = 5
    /\ min_size_spheroid_mask.shape[2] = 5
    /\ <<0, 2, 2>> \in min_size_spheroid_mask.true
    /\ <<2, 2, 4>> \in min_size_spheroid_mask.true
    /\ <<0, 0, 0>> \notin min_size_spheroid_mask.true

-----------------------------------------------------------------------------
(* C25                                                                     *)

\* The background mask of exactly the spots of the table df
BackgrMaskOf(df) ==
    [shape |-> FeatShape,
     true |-> {v \in BackgrBase :
                  \A k \in 1..Len(df) : v \notin SpheroidOf(df[k].zyx)}]

\* Every row carries the feature computed against the background mask of
\* exactly the spots of df
FeaturesAgainst(rows, df) ==
    \A k \in 1..Len(rows) :
        rows[k].background_median_z =
            BackgrMedianZ(local_spots_img, BackgrMaskOf(df), rows[k].zyx[1])

\* The rows of the table the thresholds let through
ThresholdSurvivors(df) ==
    SelectSeq(df, LAMBDA row :
        WithinThresholds(row.background_median_z, gop_filtering_thresholds))

\* One iteration computes the features of the survivors of the previous
\* iteration against their own background mask and applies the thresholds
\* to these values
GopRecomputesThenFilters ==
    GopIterated =>
        /\ pass_input' = df_obj_spots_gop
        /\ FeaturesAgainst(pass_output', df_obj_spots_gop)
        /\ df_obj_spots_gop' = ThresholdSurvivors(pass_output')

\* The table of a loop that ended with survivors holds the spots of the last
\* pass, with the features of the background mask of these spots
GopSurvivorsFeatures ==
    (pcGop = "done" /\ dfs_spots_gop[1] # <<>>) =>
        /\ SpotIds(dfs_spots_gop[1]) = SpotIds(pass_input)
        /\ FeaturesAgainst(dfs_spots_gop[1], dfs_spots_gop[1])

\* C25: in every iteration of the goodness-of-peak loop the features are
\* recomputed for exactly the spots that survived the previous iteration
\* before the thresholds are applied, so the filter never sees a value
\* computed against the background mask of an earlier, larger spot set; when
\* the loop ends with survivors, the stored features of every surviving
\* spot were computed against the background mask of exactly the surviving
\* set.
C25_FeaturesOfSurvivors ==
    /\ [][GopRecomputesThenFilters]_vars
    /\ [](PassReturned => FeaturesAgainst(pass_output, pass_input))
    /\ []GopSurvivorsFeatures

\* A loop that ended after a further iteration with a surviving spot whose
\* stored feature is not the value the first pass computed for it
C25_Witness ==
    /\ pcGop = "done"
    /\ gop_info.num_iter >= 1
    /\ dfs_spots_gop[1] # <<>>
    /\ \E k \in 1..Len(dfs_spots_gop[1]) :
       \E j \in 1..Len(dfs_spots_det[1]) :
          /\ dfs_spots_det[1][j].spot_id = dfs_spots_gop[1][k].spot_id
          /\ dfs_spots_det[1][j].background_median_z
                # dfs_spots_gop[1][k].background_median_z

-----------------------------------------------------------------------------
(* C26                                                                     *)

\* A pass of the drop-peaks-too-close loop that removed some but not all
\* spots goes on with exactly the spots the minimum-distance check kept
FitRefitsKept ==
    (pcFit = "while" /\ drop_peaks_too_close /\ pcFit' = "while") =>
        /\ Len(df_spots_obj') = num_spots'.val
        /\ Len(df_spots_obj') < Len(df_spots_obj)
        /\ FitSpotIds(df_spots_obj') \subseteq FitSpotIds(df_spots_obj)

\* The table of an object that left the loop is the table of its last fit
\* and holds exactly the spots the last minimum-distance check kept
FitReturnsLastFit ==
    (pcFit = "while" /\ drop_peaks_too_close /\ pcFit' = "for") =>
        /\ dfs_spots_spotfit' = Append(dfs_spots_spotfit, df_spotFIT_ID')
        /\ Len(df_spotFIT_ID') = num_spots'.val
        /\ FitSpotIds(df_spotFIT_ID') \subseteq FitSpotIds(df_spots_obj)
        /\ df_spotFIT_ID' # <<>> =>
              FitSpotIds(df_spotFIT_ID') = FitSpotIds(df_spots_obj)

\* C26: with drop_peaks_too_close enabled, a pass that removes some but not
\* all spots is followed by a fit of the whole object with exactly the kept
\* spots, and the table returned for an object comes from the last fit and
\* holds exactly the spots kept by the last minimum-distance check (or is
\* empty when none is kept): no returned fit was computed while a removed
\* spot was still in the model.
C26_RefitsKeptSpots ==
    /\ [][FitRefitsKept]_vars
    /\ [][FitReturnsLastFit]_vars

-----------------------------------------------------------------------------
(* pipe.spot_detection and transformations.from_df_spots_objs_to_spots_lab *)

\* At most MaxSegm voxels of the prediction mask are positive
MaxSegm == 4

\* The shapes (Z, Y, X) of the image; a 2D image is a stack of one plane
DetShapes == {<<1, 3, 3>>, <<1, 2, 4>>, <<2, 2, 3>>}

DetRadii == {<<<<0, 1>>, <<1, 1>>, <<1, 1>>>>, <<<<1, 1>>, <<1, 1>>, <<1, 1>>>>}

\* Two voxels touch by a face, an edge or a corner: skimage.measure.label
\* with its default, full connectivity
Adjacent(u, v) == \A a \in 1..3 : Abs(u[a] - v[a]) <= 1

\* The voxels of S reached from the set comp
RECURSIVE Grow(_, _)
Grow(S, comp) ==
    LET next == {v \in S \ comp : \E u \in comp : Adjacent(u, v)}
    IN IF next = {} THEN comp ELSE Grow(S, comp \cup next)

\* The position of a voxel in raster order
RasterPos(shape, v) == (v[1] * shape[2] + v[2]) * shape[3] + v[3]

\* `skimage.measure.label(spots_segmantic_segm>0)`, as the sequence of the
\* voxel sets of the labels 1, 2, ...: the labels are given in raster order
\* of the first voxel of each component.  Labelling the squeezed 2D mask
\* and stacking it on the only plane gives the same components.
RECURSIVE label(_, _)
label(S, shape) ==
    IF S = {} THEN <<>>
    ELSE LET first == CHOOSE v \in S :
                         \A u \in S : RasterPos(shape, v) <= RasterPos(shape, u)
             comp == Grow(S, {first})
         IN <<comp>> \o label(S \ comp, shape)

\* The mutant of RoundHalfEven: the fraction is cut off
RoundDown(num, den) == num \div den

\* Python's round() of the non-negative num/den: to the nearest integer,
\* a tie to the even one
RoundHalfEven(num, den) ==
    LET q == num \div den
        r == num % den
    IN IF 2 * r < den THEN q
       ELSE IF 2 * r > den THEN q + 1
       ELSE IF q % 2 = 0 THEN q ELSE q + 1

\* The sum of the coordinates of the voxels of a set along one axis
RECURSIVE AxisSum(_, _)
AxisSum(S, a) ==
    IF S = {} THEN 0
    ELSE LET v == CHOOSE v \in S : TRUE IN v[a] + AxisSum(S \ {v}, a)

\* `tuple([round(c) for c in spot_obj.centroid])`
RoundedCentroid(comp) ==
    [a \in 1..3 |-> RoundHalfEven(AxisSum(comp, a), Cardinality(comp))]

\* `spot_obj.image`: the component cut out at its bounding box
RegionImage(comp) ==
    LET lo == [a \in 1..3 |-> SetMin({v[a] : v \in comp})]
        hi == [a \in 1..3 |-> SetMax({v[a] : v \in comp})]
    IN [shape |-> [a \in 1..3 |-> hi[a] - lo[a] + 1],
        true |-> {VecSub(v, lo) : v \in comp}]

\* features.find_local_peaks on the squeezed image: the peaks in raster
\* order, with two columns for an image of one plane
find_local_peaks(peaks, shape) ==
    LET q == SelectSeq(RasterVoxels(shape), LAMBDA v : v \in peaks)
    IN [k \in 1..Len(q) |->
          IF shape[1] = 1 THEN <<q[k][2], q[k][3]>> ELSE q[k]]

from_spots_coords_to_spots_masks(coords, spot_zyx_size) ==
    [k \in 1..Len(coords) |-> get_local_spheroid_mask(spot_zyx_size)]

\* from_df_spots_objs_to_spots_lab on a new spots_lab: the rows are painted
\* one after the other, a later spot over an earlier one
RECURSIVE PaintSpots(_, _, _)
PaintSpots(rows, arr_shape, acc) ==
    IF rows = <<>> \/ acc.error # "" THEN acc
    ELSE LET row == Head(rows)
             set == SpheroidAt(row.zyx, arr_shape, row.spot_mask)
         IN PaintSpots(Tail(rows), arr_shape,
                [error |-> set.error,
                 at |-> [v \in DOMAIN acc.at |->
                           IF v \in set.true THEN row.spot_id
                           ELSE acc.at[v]]])

from_df_spots_objs_to_spots_lab(df_spots_objs, arr_shape) ==
    PaintSpots(df_spots_objs, arr_shape,
               [error |-> "", at |-> [v \in Voxels(arr_shape) |-> 0]])

InitDet ==
    /\ image_shape \in DetShapes
    /\ spots_segmantic_segm \in
          {S \in SUBSET Voxels(image_shape) : Cardinality(S) <= MaxSegm}
    /\ detection_method \in {"peak_local_max", "label_prediction_mask"}
    /\ return_spots_mask \in BOOLEAN
    /\ spots_zyx_radii_pxl \in DetRadii
    /\ detected_coords = <<>>
    /\ spots_masks = <<>>
    /\ spots_lab = <<>>
    /\ pcDet = "spot_detection"
    /\ IdleFrame
    /\ IdleLoad
    /\ IdleIndex
    /\ IdleSlices
    /\ IdleMask
    /\ IdleCoords
    /\ IdleAggr
    /\ IdleNorm
    /\ IdleGop
    /\ IdleFit

\* spot_detection(image, spots_segmantic_segm, detection_method, ...,
\* return_df=False), lines 1003-1067
SpotDetectionPeaks ==
    /\ pcDet = "spot_detection"
    /\ detection_method = "peak_local_max"
    /\ \E peaks \in SUBSET spots_segmantic_segm :
          detected_coords' = find_local_peaks(peaks, image_shape)
    /\ spots_masks' =
          IF return_spots_mask
          THEN Just(from_spots_coords_to_spots_masks(detected_coords',
                                                     spots_zyx_radii_pxl))
          ELSE None
    /\ pcDet' = "detected"
    /\ UNCHANGED <<image_shape, spots_segmantic_segm, detection_method,
                   return_spots_mask, spots_lab>>
    /\ UNCHANGED <<varsCore, varsNorm, varsGop, varsFit, varsFrame, varsLoad,
                   varsIndex>>

SpotDetectionLabels ==
    /\ pcDet = "spot_detection"
    /\ detection_method = "label_prediction_mask"
    /\ \E prediction_lab_rp \in {label(spots_segmantic_segm, image_shape)} :
          /\ detected_coords' =
                [s \in 1..Len(prediction_lab_rp) |->
                    RoundedCentroid(prediction_lab_rp[s])]
          /\ spots_masks' =
                Just([s \in 1..Len(prediction_lab_rp) |->
                        RegionImage(prediction_lab_rp[s])])
    /\ pcDet' = "detected"
    /\ UNCHANGED <<image_shape, spots_segmantic_segm, detection_method,
                   return_spots_mask, spots_lab>>
    /\ UNCHANGED <<varsCore, varsNorm, varsGop, varsFit, varsFrame, varsLoad,
                   varsIndex>>

\* The spots and their masks are painted into a label image of the shape
\* of the input image
SpotsLab ==
    /\ pcDet = "detected"
    /\ ~spots_masks.none
    /\ spots_lab' = from_df_spots_objs_to_spots_lab(
          [s \in 1..Len(detected_coords) |->
              [spot_id |-> s, zyx |-> ZYXOf(detected_coords[s]),
               spot_mask |-> spots_masks.val[s]]], image_shape)
    /\ pcDet' = "done"
    /\ UNCHANGED <<image_shape, spots_segmantic_segm, detection_method,
                   return_spots_mask, detected_coords, spots_masks>>
    /\ UNCHANGED <<varsCore, varsNorm, varsGop, varsFit, varsFrame, varsLoad,
                   varsIndex>>

NextDet == SpotDetectionPeaks \/ SpotDetectionLabels \/ SpotsLab

SpecDet == InitDet /\ [][NextDet]_vars

-----------------------------------------------------------------------------
(* C23                                                                     *)

\* The connected components of the prediction mask: the non-empty sets of
\* positive voxels that touch no positive voxel outside and cannot be split
\* in two parts that do not touch
ConnectedComponents ==
    {C \in SUBSET spots_segmantic_segm :
        /\ C # {}
        /\ \A u \in C : \A v \in spots_segmantic_segm \ C : ~Adjacent(u, v)
        /\ \A P \in SUBSET C :
              (P # {} /\ P # C) =>
                  \E u \in P : \E v \in C \ P : Adjacent(u, v)}

\* c is an integer voxel nearest to the centroid of the component
NearestToCentroid(c, C) ==
    \A a \in 1..3 :
        2 * Abs(Cardinality(C) * c[a] - AxisSum(C, a)) <= Cardinality(C)

\* The mask is the component moved to the origin of its bounding box
OwnShape(mask, C) ==
    \E lo \in Voxels(image_shape) :
        /\ C = {VecAdd(i, lo) : i \in mask.true}
        /\ \A a \in 1..3 :
              /\ \E v \in C : v[a] = lo[a]
              /\ \E v \in C : v[a] = lo[a] + mask.shape[a] - 1
              /\ \A v \in C : v[a] < lo[a] + mask.shape[a]

SpotsDetected == pcDet \in {"detected", "done"}

-----------------------------------------------------------------------------
(* C29                                                                     *)

\* The voxels of the label image painted with the id of the spot
SpotVoxels(s) == {v \in DOMAIN spots_lab.at : spots_lab.at[v] = s}

\* C29: for spots detected with 'label_prediction_mask', embedding the own
\* mask of a spot at the coordinate of the spot marks exactly the voxels of
\* the connected component the spot came from, for any component shape.
C29_MaskMarksComponent ==
    (pcDet = "done" /\ detection_method = "label_prediction_mask") =>
        /\ spots_lab.error = ""
        /\ \A s \in 1..Len(detected_coords) :
              SpotVoxels(s) = label(spots_segmantic_segm, image_shape)[s]

-----------------------------------------------------------------------------
(* pipe.spots_calc_features_and_filter: the loop over the objects of a     *)
(* frame, lines 1208-1388                                                  *)

\* The image is two planes of one line of FrameX voxels, with at most
\* FrameSpots spots
FrameX == 4
FrameSpots == 3
FrameShape == <<2, 1, FrameX>>

\* The boxes that go through both planes
FrameBoxes == {b \in Boxes(FrameShape) : b[1] = <<0, FrameShape[1]>>}

\* `image[obj_slice]`
CropImage(img, obj_slice) ==
    LET shape == VecSub(obj_slice.stop, obj_slice.start)
    IN [shape |-> shape,
        at |-> Table([v \in Voxels(shape) |->
                         img.at[VecAdd(v, obj_slice.start)]])]

\* obj_image of get_expanded_obj_slice_image: `lab[obj_slice] == obj.label`
CropObjImage(L, obj, obj_slice) ==
    LET shape == VecSub(obj_slice.stop, obj_slice.start)
    IN [shape |-> shape,
        true |-> {v \in Voxels(shape) :
                     L.at[VecAdd(v, obj_slice.start)] = obj.label}]

\* The segmentation of the docstring: one object covering the entire image
OnesLab(shape) == [shape |-> shape, at |-> Table([v \in Voxels(shape) |-> 1])]

\* `lab = np.zeros(image.shape, dtype=np.uint8)`, line 1213
ZerosLab(shape) == [shape |-> shape, at |-> Table([v \in Voxels(shape) |-> 0])]

\* The mutant of AppendDetected: the table of the detected spots is not
\* appended before the loop of the object
DetectedNotAppended(dfs, df) == dfs

\* `dfs_spots_det.append(df_obj_spots_det)`, line 1293
AppendDetected(dfs, df) == Append(dfs, df)

\* The mutant of NextSpotIds: the spot ids of every object start at 1
SameSpotIds(df, last) == df

\* `df_obj_spots_det['spot_id'] += last_spot_id`, line 1283
NextSpotIds(df, last) == AddSpotId(df, last)

\* The table of an object as the goodness-of-peak loop reads it: the
\* coordinates inside the expanded window are the ones the features use
FrameRows(df) ==
    [k \in 1..Len(df) |->
        [spot_id |-> df[k].spot_id, zyx |-> df[k].zyx_local_expanded,
         zyx_global |-> df[k].zyx, background_median_z |-> NaN]]

\* The label volumes: one object somewhere along the line, or two objects
\* that share the line
FrameLabs ==
    {PaintLab(FrameShape, <<b>>) : b \in FrameBoxes}
    \cup {PaintLab(FrameShape, <<b, c>>) :
             b \in {b \in FrameBoxes : b[3] = <<0, FrameX>>},
             c \in {c \in FrameBoxes : c[3][1] > 0 /\ c[3][2] = FrameX}}

\* The images: the x coordinate of the voxel, or the product of its z and
\* x coordinates
FrameImages ==
    {[shape |-> FrameShape, at |-> Table([v \in Voxels(FrameShape) |-> v[3]])],
     [shape |-> FrameShape,
      at |-> Table([v \in Voxels(FrameShape) |-> v[1] * v[3]])]}

\* The table of the spots is the one spot_detection builds for the
\* segmentation; without a segmentation every spot belongs to object 1
InitFrame ==
    /\ lab \in {None} \cup FrameLabs
    /\ image \in FrameImages
    /\ spots_coords \in
          {SelectSeq(RasterVoxels(FrameShape), LAMBDA v : v \in c) :
              c \in {c \in SUBSET Voxels(FrameShape) :
                        Cardinality(c) \in 1..FrameSpots}}
    /\ df_spots_coords =
          from_spots_coords_arr_to_df(spots_coords,
              IF lab = None THEN OnesLab(FrameShape) ELSE lab)
    /\ spots_zyx_radii_pxl \in FeatRadii
    /\ gop_filtering_thresholds \in GopThresholds
    /\ delta_tol = <<>>
    /\ expanded_objs = <<>>
    /\ keys = <<>>
    /\ dfs_features = <<>>
    /\ pcCoords = "idle"
    /\ detect_image_ndim = 0
    /\ spot_footprint = <<>>
    /\ min_size_spheroid_mask = <<>>
    /\ pcMask = "idle"
    /\ obj_image = <<>>
    /\ local_spots_img = <<>>
    /\ local_ref_ch_mask = None
    /\ local_ref_ch_img = None
    /\ optimise_for_high_spot_density \in BOOLEAN
    /\ dist_transform_spheroid = None
    /\ get_backgr_from_inside_ref_ch_mask = FALSE
    /\ df_obj_spots_det = <<>>
    /\ df_obj_spots_gop = <<>>
    /\ backgr_mask = <<>>
    /\ pass_input = <<>>
    /\ pass_output = <<>>
    /\ ttest_inputs = <<>>
    /\ gop_i = 0
    /\ gop_info = <<>>
    /\ dfs_spots_det = <<>>
    /\ dfs_spots_gop = <<>>
    /\ first_run = <<>>
    /\ pcGop = "idle"
    /\ rp_i = 0
    /\ frame_last_spot_id = 0
    /\ frame_obj_idx = 0
    /\ pcFrame = "start"
    /\ IdleSlices
    /\ IdleAggr
    /\ IdleNorm
    /\ IdleFit
    /\ IdleDet
    /\ IdleLoad
    /\ IdleIndex

\* What no step of the loop over the objects changes
frameInputs == <<image, spots_coords, df_spots_coords, dfs_features, pcCoords,
                 spots_zyx_radii_pxl, detect_image_ndim, spot_footprint,
                 pcMask, local_ref_ch_mask, local_ref_ch_img,
                 optimise_for_high_spot_density,
                 get_backgr_from_inside_ref_ch_mask,
                 gop_filtering_thresholds, first_run, pcGop>>

frameOthers ==
    <<varsSlices, varsAggr, varsNorm, varsFit, varsDet, varsLoad, varsIndex>>

\* Lines 1208-1261: the defaults of the arguments and the empty
\* accumulators
FrameStart ==
    /\ pcFrame = "start"
    /\ lab' = IF lab = None THEN ZerosLab(image.shape) ELSE lab
    /\ delta_tol' = get_expand_obj_delta_tolerance(spots_zyx_radii_pxl)
    /\ min_size_spheroid_mask' = get_local_spheroid_mask(spots_zyx_radii_pxl)
    /\ dist_transform_spheroid' =
          IF optimise_for_high_spot_density
          THEN Just("norm_distance_transform_edt")
          ELSE dist_transform_spheroid
    /\ keys' = <<>>
    /\ dfs_spots_det' = <<>>
    /\ dfs_spots_gop' = <<>>
    /\ frame_last_spot_id' = 0
    /\ frame_obj_idx' = 0
    /\ rp_i' = 1
    /\ pcFrame' = "for"
    /\ UNCHANGED <<expanded_objs, obj_image, local_spots_img,
                   df_obj_spots_det, df_obj_spots_gop, backgr_mask,
                   pass_input, pass_output, ttest_inputs, gop_i, gop_info>>
    /\ UNCHANGED <<frameInputs, frameOthers>>

\* Lines 1262-1318: the next object of rp, up to the `while True`.  An
\* object without spots is skipped; an object with spots has its key and
\* its table of detected spots appended before its loop starts.
FrameNextObj ==
    /\ pcFrame = "for"
    /\ rp_i <= Len(regionprops(lab))
    /\ \E obj \in {regionprops(lab)[rp_i]} :
       \E ex \in {get_expanded_obj_slice_image(obj, delta_tol, lab)} :
       \E res \in {init_df_features(df_spots_coords, obj,
                                    ex.crop_obj_start)} :
          /\ expanded_objs' = Append(expanded_objs, ex)
          /\ IF res.none
             THEN /\ rp_i' = rp_i + 1
                  /\ UNCHANGED <<keys, dfs_spots_det, frame_last_spot_id,
                                 obj_image, local_spots_img, df_obj_spots_det,
                                 df_obj_spots_gop, gop_i, gop_info, pcFrame>>
             ELSE /\ df_obj_spots_det' =
                        FrameRows(NextSpotIds(res.df, frame_last_spot_id))
                  /\ keys' = Append(keys, obj.label)
                  /\ frame_last_spot_id' = frame_last_spot_id + Len(res.df)
                  /\ dfs_spots_det' =
                        AppendDetected(dfs_spots_det, df_obj_spots_det')
                  /\ obj_image' = CropObjImage(lab, obj, ex.obj_slice)
                  /\ local_spots_img' = CropImage(image, ex.obj_slice)
                  /\ df_obj_spots_gop' = df_obj_spots_det'
                  /\ gop_info' = [start_num_spots |-> Len(res.df)]
                  /\ gop_i' = 0
                  /\ pcFrame' = "while"
                  /\ UNCHANGED rp_i
    /\ UNCHANGED <<lab, delta_tol, min_size_spheroid_mask, dfs_spots_gop,
                   frame_obj_idx, backgr_mask, pass_input, pass_output,
                   ttest_inputs, dist_transform_spheroid>>
    /\ UNCHANGED <<frameInputs, frameOthers>>

\* One iteration of the `while True` of lines 1320-1368 and, when it breaks,
\* lines 1370-1375: the table of the object is appended to dfs_spots_gop
\* and obj_idx is counted up.  An exception leaves the function.
FrameGopIteration ==
    /\ pcFrame = "while"
    /\ \E num_spots_prev \in {Len(df_obj_spots_gop)} :
       \E r \in {_compute_obj_spots_features(GopArgs)} :
       \E filtered \in {filter_spots_from_features_thresholds(
                            r.df, gop_filtering_thresholds)} :
          /\ backgr_mask' = r.backgr_mask
          /\ pass_input' = df_obj_spots_gop
          /\ ttest_inputs' = r.ttest
          /\ IF r.outcome # "returned"
             THEN /\ pcFrame' = r.outcome
                  /\ pass_output' = <<>>
                  /\ UNCHANGED <<df_obj_spots_gop, dfs_spots_det,
                                 dfs_spots_gop, gop_i, gop_info,
                                 frame_obj_idx, rp_i>>
             ELSE /\ pass_output' = r.df
                  /\ dfs_spots_det' =
                        IF gop_i = 0
                        THEN [dfs_spots_det EXCEPT ![frame_obj_idx + 1] = r.df]
                        ELSE dfs_spots_det
                  /\ df_obj_spots_gop' = filtered
                  /\ IF GopStops(Len(filtered), num_spots_prev)
                     THEN /\ gop_info' =
                                [start_num_spots |-> gop_info.start_num_spots,
                                 end_num_spots |-> Len(filtered),
                                 num_iter |-> gop_i]
                          /\ dfs_spots_gop' = Append(dfs_spots_gop, filtered)
                          /\ frame_obj_idx' = frame_obj_idx + 1
                          /\ rp_i' = rp_i + 1
                          /\ pcFrame' = "for"
                          /\ UNCHANGED gop_i
                     ELSE /\ gop_i' = gop_i + 1
                          /\ UNCHANGED <<gop_info, dfs_spots_gop,
                                         frame_obj_idx, rp_i, pcFrame>>
    /\ UNCHANGED <<lab, delta_tol, expanded_objs, keys,
                   min_size_spheroid_mask, obj_image, local_spots_img,
                   df_obj_spots_det, frame_last_spot_id,
                   dist_transform_spheroid>>
    /\ UNCHANGED <<frameInputs, frameOthers>>

\* Lines 1381-1388: `return keys, dfs_spots_det, dfs_spots_gop`
FrameReturn ==
    /\ pcFrame = "for"
    /\ rp_i > Len(regionprops(lab))
    /\ pcFrame' = "done"
    /\ UNCHANGED <<lab, delta_tol, expanded_objs, keys,
                   min_size_spheroid_mask, obj_image, local_spots_img,
                   df_obj_spots_det, df_obj_spots_gop, backgr_mask,
                   pass_input, pass_output, ttest_inputs, gop_i, gop_info,
                   dfs_spots_det, dfs_spots_gop, rp_i, frame_last_spot_id,
                   frame_obj_idx, dist_transform_spheroid>>
    /\ UNCHANGED <<frameInputs, frameOthers>>

NextFrame == FrameStart \/ FrameNextObj \/ FrameGopIteration \/ FrameReturn

SpecFrame == InitFrame /\ [][NextFrame]_vars

-----------------------------------------------------------------------------
(* C22                                                                     *)

\* The call was made with lab=None: every segmentation of FrameLabs holds
\* an object, so the volume of zeros is the one made from None
LabIsNone == lab \in {None, ZerosLab(FrameShape)}

\* C22: when spots_calc_features_and_filter is called with lab=None the
\* segmentation is one object covering the entire image, so every input
\* spot is processed as belonging to that object and the returned lists
\* are not empty when spots are given.
C22_NoLabIsOneObject ==
    (pcFrame = "done" /\ LabIsNone /\ spots_coords # <<>>) =>
        /\ keys = <<1>>
        /\ Len(dfs_spots_det) = 1
        /\ Len(dfs_spots_gop) = 1

-----------------------------------------------------------------------------
(* C27                                                                     *)

\* The loop of an object is running, or has raised
InsideObject == pcFrame \notin {"idle", "start", "for", "done"}

\* C27 as stated: at no point during the processing of an object do keys,
\* dfs_spots_det or dfs_spots_gop hold an entry for it.
C27_NoEntryBeforeCompletion ==
    InsideObject =>
        /\ Len(keys) = frame_obj_idx
        /\ Len(dfs_spots_det) = frame_obj_idx
        /\ Len(dfs_spots_gop) = frame_obj_idx

\* The lists while an object is processed, and between two objects
AccumulatorLengths ==
    /\ InsideObject =>
          /\ Len(dfs_spots_gop) = frame_obj_idx
          /\ Len(keys) = frame_obj_idx + 1
          /\ Len(dfs_spots_det) = frame_obj_idx + 1
          /\ keys[Len(keys)] = regionprops(lab)[rp_i].label
    /\ pcFrame \in {"for", "done"} =>
          /\ Len(dfs_spots_gop) = frame_obj_idx
          /\ Len(keys) = frame_obj_idx
          /\ Len(dfs_spots_det) = frame_obj_idx

\* dfs_spots_gop grows by the table of an object on the step that completes
\* the object, and on no other step
GopCommittedOnCompletion ==
    dfs_spots_gop' # dfs_spots_gop =>
        \/ pcFrame = "start"
        \/ /\ pcFrame = "while"
           /\ pcFrame' = "for"
           /\ dfs_spots_gop' = Append(dfs_spots_gop, df_obj_spots_gop')

\* C27, amended: an object's table is committed to dfs_spots_gop only after
\* the processing of the object has completed; its key and its table of
\* detected spots are appended to keys and dfs_spots_det before its loop
\* starts, so while an object is processed keys and dfs_spots_det hold one
\* entry more than dfs_spots_gop, and the three lists have one entry per
\* completed object whenever no object is in process and when the function
\* returns.
C27_GopCommittedLast ==
    /\ []AccumulatorLengths
    /\ [][GopCommittedOnCompletion]_vars

\* The second object with spots is in a further iteration of its loop
C27_Witness ==
    /\ pcFrame = "while"
    /\ gop_i >= 1
    /\ frame_obj_idx = 1
    /\ Len(keys) = 2
    /\ Len(dfs_spots_gop) = 1

-----------------------------------------------------------------------------
(* C28                                                                     *)

\* The spot ids of all the tables of a list
AllSpotIds(dfs) == UNION {SpotIds(dfs[k]) : k \in 1..Len(dfs)}

\* No spot id is in the tables of two objects, and the valid spots of an
\* object are among its detected spots
SpotIdsUnique ==
    /\ \A j, k \in 1..Len(dfs_spots_det) :
          j # k => SpotIds(dfs_spots_det[j]) \cap SpotIds(dfs_spots_det[k]) = {}
    /\ \A j, k \in 1..Len(dfs_spots_gop) :
          j # k => SpotIds(dfs_spots_gop[j]) \cap SpotIds(dfs_spots_gop[k]) = {}
    /\ \A j \in 1..Len(dfs_spots_gop) : \A k \in 1..Len(dfs_spots_det) :
          j # k => SpotIds(dfs_spots_gop[j]) \cap SpotIds(dfs_spots_det[k]) = {}
    /\ \A k \in 1..Len(dfs_spots_gop) :
          SpotIds(dfs_spots_gop[k]) \subseteq SpotIds(dfs_spots_det[k])
    /\ \A k \in 1..Len(dfs_spots_det) :
          Cardinality(SpotIds(dfs_spots_det[k])) = Len(dfs_spots_det[k])
    /\ AllSpotIds(dfs_spots_det) \subseteq 1..frame_last_spot_id

\* An object with spots is given the next consecutive ids
SpotIdsConsecutive ==
    (pcFrame = "for" /\ pcFrame' = "while") =>
        /\ frame_last_spot_id' = frame_last_spot_id + Len(df_obj_spots_det')
        /\ SpotIds(df_obj_spots_det') =
               (frame_last_spot_id + 1)..frame_last_spot_id'
        /\ dfs_spots_det'[Len(dfs_spots_det')] = df_obj_spots_det'

\* C28: within one call of spots_calc_features_and_filter the spot ids are
\* unique across the objects of the frame: each object with spots is given
\* the next consecutive integers after the last id of the previous object
\* with spots, no spot id is in the tables of two objects, in dfs_spots_det
\* or dfs_spots_gop, and every spot of dfs_spots_gop[k] is a spot of
\* dfs_spots_det[k].
C28_SpotIdsUnique ==
    /\ [](pcFrame \in {"for", "while", "done"} => SpotIdsUnique)
    /\ [][SpotIdsConsecutive]_vars

\* Two objects with spots returned, three spots in all, the ids of the
\* second object after those of the first; one object lost one of its two
\* spots
C28_Witness ==
    /\ pcFrame = "done"
    /\ Len(dfs_spots_det) = 2
    /\ AllSpotIds(dfs_spots_det) = {1, 2, 3}
    /\ 1 \in SpotIds(dfs_spots_det[1])
    /\ 3 \in SpotIds(dfs_spots_det[2])
    /\ \E k \in 1..2 :
          /\ Len(dfs_spots_det[k]) = 2
          /\ Len(dfs_spots_gop[k]) = 1

-----------------------------------------------------------------------------
(* qtworkers.loadChunkDataWorker: run() in the worker thread, setArgs and  *)
(* the wake-up of the condition in the thread that asks for a chunk        *)

\* The other thread asks for at most MaxRequests chunks; request n asks for
\* index n along axis n
MaxRequests == 3

\* The worker has been constructed, setArgs has been called for the first
\* chunk and the thread has been started
InitLoad ==
    /\ wait = FALSE
    /\ exit = FALSE
    /\ requested = 1
    /\ current_idx = 1
    /\ axis = 1
    /\ load_args = <<>>
    /\ chunks_loaded = <<>>
    /\ pcWorker = "while"
    /\ pcSetArgs = "idle"
    /\ IdleCore
    /\ IdleNorm
    /\ IdleGop
    /\ IdleFit
    /\ IdleDet
    /\ IdleFrame
    /\ IdleIndex

loadOthers ==
    <<varsCore, varsNorm, varsGop, varsFit, varsDet, varsFrame, varsIndex>>

\* setArgs, line 187: `self.wait = False` is the first statement
SetArgsWait ==
    /\ pcSetArgs = "idle"
    /\ requested < MaxRequests
    /\ requested' = requested + 1
    /\ wait' = FALSE
    /\ pcSetArgs' = "current_idx"
    /\ UNCHANGED <<exit, current_idx, axis, load_args, chunks_loaded,
                   pcWorker>>
    /\ UNCHANGED loadOthers

\* setArgs, lines 188-191
SetArgsIdx ==
    /\ pcSetArgs = "current_idx"
    /\ current_idx' = requested
    /\ pcSetArgs' = "axis"
    /\ UNCHANGED <<wait, exit, axis, load_args, chunks_loaded, requested,
                   pcWorker>>
    /\ UNCHANGED loadOthers

\* setArgs, line 192
SetArgsAxis ==
    /\ pcSetArgs = "axis"
    /\ axis' = requested
    /\ pcSetArgs' = "wake"
    /\ UNCHANGED <<wait, exit, current_idx, load_args, chunks_loaded,
                   requested, pcWorker>>
    /\ UNCHANGED loadOthers

\* The caller wakes the condition the worker pauses on: a worker that is
\* not waiting yet does not see the wake-up
WakeAll ==
    /\ pcSetArgs = "wake"
    /\ pcWorker' = IF pcWorker = "waiting" THEN "while" ELSE pcWorker
    /\ pcSetArgs' = "idle"
    /\ UNCHANGED <<wait, exit, current_idx, axis, load_args, chunks_loaded,
                   requested>>
    /\ UNCHANGED loadOthers

\* run, lines 206-217: the tests at the head of the loop
RunWhile ==
    /\ pcWorker = "while"
    /\ pcWorker' = IF exit THEN "finished"
                   ELSE IF wait THEN "pause" ELSE "load"
    /\ UNCHANGED <<wait, exit, current_idx, axis, load_args, chunks_loaded,
                   requested, pcSetArgs>>
    /\ UNCHANGED loadOthers

\* pause, lines 199-202: the worker blocks on waitCond
Pause ==
    /\ pcWorker = "pause"
    /\ pcWorker' = "waiting"
    /\ UNCHANGED <<wait, exit, current_idx, axis, load_args, chunks_loaded,
                   requested, pcSetArgs>>
    /\ UNCHANGED loadOthers

\* run, lines 222-224: the arguments of the call are read one after the
\* other
LoadReadIdx ==
    /\ pcWorker = "load"
    /\ load_args' = <<current_idx>>
    /\ pcWorker' = "load_axis"
    /\ UNCHANGED <<wait, exit, current_idx, axis, chunks_loaded, requested,
                   pcSetArgs>>
    /\ UNCHANGED loadOthers

LoadReadAxis ==
    /\ pcWorker = "load_axis"
    /\ load_args' = Append(load_args, axis)
    /\ pcWorker' = "loading"
    /\ UNCHANGED <<wait, exit, current_idx, axis, chunks_loaded, requested,
                   pcSetArgs>>
    /\ UNCHANGED loadOthers

\* posData.loadChannelDataChunk returns and sigLoadingFinished is emitted
LoadChannelDataChunk ==
    /\ pcWorker = "loading"
    /\ chunks_loaded' = Append(chunks_loaded, load_args)
    /\ pcWorker' = "set_wait"
    /\ UNCHANGED <<wait, exit, current_idx, axis, load_args, requested,
                   pcSetArgs>>
    /\ UNCHANGED loadOthers

\* run, line 226: `self.wait = True`
SetWait ==
    /\ pcWorker = "set_wait"
    /\ wait' = TRUE
    /\ pcWorker' = "while"
    /\ UNCHANGED <<exit, current_idx, axis, load_args, chunks_loaded,
                   requested, pcSetArgs>>
    /\ UNCHANGED loadOthers

WorkerStep ==
    RunWhile \/ Pause \/ LoadReadIdx \/ LoadReadAxis \/ LoadChannelDataChunk
        \/ SetWait

\* The statements of a call of setArgs that has started, and the wake-up
SetArgsStep == SetArgsIdx \/ SetArgsAxis \/ WakeAll

NextLoad ==
    \/ SetArgsWait
    \/ SetArgsIdx
    \/ SetArgsAxis
    \/ WakeAll
    \/ RunWhile
    \/ Pause
    \/ LoadReadIdx
    \/ LoadReadAxis
    \/ LoadChannelDataChunk
    \/ SetWait

SpecLoad == InitLoad /\ [][NextLoad]_vars

\* The worker thread keeps running and a call of setArgs that has started
\* runs to its end; nothing forces a new request
FairSpecLoad ==
    InitLoad /\ [][NextLoad]_vars /\ WF_vars(WorkerStep) /\ WF_vars(SetArgsStep)

-----------------------------------------------------------------------------
(* C30                                                                     *)

\* The worker has called loadChannelDataChunk for the index of request n
ChunkLoaded(n) == \E k \in 1..Len(chunks_loaded) : chunks_loaded[k][1] = n

\* C30: a load request made with setArgs from another thread at any moment,
\* also while the worker is finishing the previous chunk, is never lost:
\* under every interleaving the worker eventually calls loadChannelDataChunk
\* for the requested index, unless a newer request has replaced it.
C30_RequestNeverLost ==
    \A n \in 1..MaxRequests :
        (requested = n) ~> (ChunkLoaded(n) \/ requested > n)

-----------------------------------------------------------------------------
(* transformations.index_aggregated_segm_into_input_lab                    *)

\* str() of a non-negative int
RECURSIVE StrInt(_)
StrInt(n) ==
    LET digit == <<"0", "1", "2", "3", "4", "5", "6", "7", "8", "9">>
    IN IF n < 10 THEN digit[n + 1]
       ELSE StrInt(n \div 10) \o digit[(n % 10) + 1]

RECURSIVE JoinInts(_)
JoinInts(q) ==
    IF q = <<>> THEN ""
    ELSE IF Len(q) = 1 THEN StrInt(q[1])
    ELSE StrInt(q[1]) \o ", " \o JoinInts(Tail(q))

\* str(x_slice_idxs) of a list of ints
StrList(q) == "[" \o JoinInts(q) \o "]"

\* `with open('x_slice_idxs.txt', 'w') as txt: txt.write(str(x_slice_idxs))`:
\* the file is created, or truncated, and written in the working directory
WriteSliceIdxsFile(fs, idxs) ==
    [name \in DOMAIN fs \cup {"x_slice_idxs.txt"} |->
        IF name = "x_slice_idxs.txt" THEN StrList(idxs) ELSE fs[name]]

\* `aggregated_segm[aggregated_lab == 0] = False`, unless the objects
\* touching lab are kept intact
MaskedSegm(segm, aggr_lab, keep) ==
    IF keep THEN segm
    ELSE [shape |-> segm.shape,
          true |-> {v \in segm.true : aggr_lab.at[v] # 0}]

\* The loop over x_slice_idxs: the connected components of each block of
\* columns start_x_slice..end_x_slice-1, numbered from last_max_id + 1;
\* last_max_id is the maximum of the block just labelled, which is 0 for a
\* block without foreground
RECURSIVE SliceLabelLoop(_, _, _, _, _, _)
SliceLabelLoop(segm, idxs, i, start_x_slice, last_max_id, acc) ==
    IF i > Len(idxs) THEN acc
    ELSE LET end_x_slice == idxs[i]
             block == {v \in segm.true :
                          start_x_slice <= v[3] /\ v[3] < end_x_slice}
             comps == label(block, segm.shape)
             labelled == [v \in Voxels(segm.shape) |->
                 IF start_x_slice <= v[3] /\ v[3] < end_x_slice
                 THEN IF v \in block
                      THEN last_max_id +
                           (CHOOSE k \in 1..Len(comps) : v \in comps[k])
                      ELSE 0
                 ELSE acc[v]]
             block_max == IF comps = <<>> THEN 0
                          ELSE last_max_id + Len(comps)
         IN SliceLabelLoop(segm, idxs, i + 1, end_x_slice, block_max,
                           Table(labelled))

\* aggr_subobj_lab
AggrSubobjLab(segm, idxs) ==
    [shape |-> segm.shape,
     at |-> SliceLabelLoop(segm, idxs, 1, 0, 0,
                           Table([v \in Voxels(segm.shape) |-> 0]))]

\* np.unique(masked, return_counts=True) restricted to the values > 0 and
\* counts_foregr.argmax(): the most frequent object label under the voxels
\* of the sub-object, the smallest one on a tie; 0 when there is none
MajorityForegroundID(aggr_lab, voxels) ==
    LET vals == {aggr_lab.at[v] : v \in voxels} \ {0}
        count(ID) == Cardinality({v \in voxels : aggr_lab.at[v] = ID})
    IN IF vals = {} THEN 0
       ELSE CHOOSE ID \in vals :
               \A other \in vals :
                   \/ count(ID) > count(other)
                   \/ count(ID) = count(other) /\ ID <= other

\* An index of `subobj_labels[zz, yy, xx]` on an axis of length D: a
\* negative index counts from the end
WrapIndex(c, D) == IF c < 0 THEN c + D ELSE c

IndexInBounds(c, D) == -D <= c /\ c < D

\* sub_obj_global_coords: subobj.coords - aggr_obj.bbox[:3] + obj.bbox[:3]
SubObjGlobalCoords(voxels, aggr_obj, obj) ==
    {[a \in 1..3 |-> v[a] - aggr_obj.bbox[a] + obj.bbox[a]] : v \in voxels}

\* The loop over the regions of aggr_subobj_lab
RECURSIVE ScatterLoop(_, _, _, _, _, _)
ScatterLoop(aggr_subobj_rp, i, sub_lab, L, aggr_lab, acc) ==
    IF i > Len(aggr_subobj_rp) \/ acc.error # "" THEN acc
    ELSE LET voxels == LabelVoxels(sub_lab, aggr_subobj_rp[i].label)
             ID == MajorityForegroundID(aggr_lab, voxels)
         IN IF ID = 0
            \* Sub object is not touching any obj --> do not add
            THEN ScatterLoop(aggr_subobj_rp, i + 1, sub_lab, L, aggr_lab, acc)
            ELSE IF ID \notin LabelsOf(L)
            THEN [acc EXCEPT !.error = "KeyError"]
            ELSE LET coords == SubObjGlobalCoords(voxels,
                                   RegionOf(aggr_lab, ID), RegionOf(L, ID))
                 IN IF \E c \in coords : \E a \in 1..3 :
                           ~IndexInBounds(c[a], L.shape[a])
                    THEN [acc EXCEPT !.error = "IndexError"]
                    ELSE LET hit == {[a \in 1..3 |->
                                        WrapIndex(c[a], L.shape[a])] :
                                     c \in coords}
                         IN ScatterLoop(aggr_subobj_rp, i + 1, sub_lab, L,
                                aggr_lab,
                                [error |-> "",
                                 at |-> Table([v \in DOMAIN acc.at |->
                                          IF v \in hit THEN ID
                                          ELSE acc.at[v]])])

\* index_aggregated_segm_into_input_lab(lab, aggregated_segm,
\* aggregated_lab, x_slice_idxs, keep_objects_touching_lab_intact): the
\* file it writes first, the argument it masks in place, and subobj_labels
index_aggregated_segm_into_input_lab(fs, L, segm, aggr_lab, idxs, keep) ==
    LET masked == MaskedSegm(segm, aggr_lab, keep)
        sub_lab == AggrSubobjLab(masked, idxs)
        scattered == ScatterLoop(regionprops(sub_lab), 1, sub_lab, L,
                         aggr_lab,
                         [error |-> "",
                          at |-> Table([v \in DOMAIN L.at |-> 0])])
    IN [files |-> WriteSliceIdxsFile(fs, idxs),
        aggregated_segm |-> masked,
        error |-> scattered.error,
        subobj_labels |-> [shape |-> L.shape, at |-> scattered.at]]

\* The segmentations of the aggregated image: nothing, the objects
\* themselves, a slab of columns, one marked voxel, or two of them
IndexSegms(aggr_lab) ==
    LET shape == aggr_lab.shape
        W == shape[3]
        slabs == {<<0, 1>>, <<0, W>>, <<W - 1, W>>, <<W \div 2, W>>}
    IN {[shape |-> shape, true |-> S] :
          S \in {{}, {v \in Voxels(shape) : aggr_lab.at[v] # 0}}
                \cup {{v \in Voxels(shape) : s[1] <= v[3] /\ v[3] < s[2]} :
                         s \in slabs}
                \cup {{v} : v \in MarkVoxels(shape)}
                \cup {{<<0, 0, 0>>, <<shape[1] - 1, shape[2] - 1, W - 1>>}}}

\* The working directory before the call: empty, or holding the file of an
\* earlier call
IndexFiles == {<<>>, [name \in {"x_slice_idxs.txt"} |-> "[9]"]}

\* The arguments are those aggregate_objs returns for a label volume
InitIndex ==
    /\ lab \in AggrLabs
    /\ img_data = AggrImage
    /\ zyx_tolerance \in AggrTolerances
    /\ lineage_table = None
    /\ \E r \in {aggregate_objs(img_data, lab, zyx_tolerance, lineage_table)} :
          /\ r.error = ""
          /\ aggregated_img = r.aggregated_img
          /\ aggregated_lab = r.aggregated_lab
          /\ x_slice_idxs = r.x_slice_idxs
          /\ aggregated_segm \in IndexSegms(r.aggregated_lab)
    /\ deaggr_img = <<>>
    /\ pcAggr = "aggregated"
    /\ keep_objects_touching_lab_intact \in BOOLEAN
    /\ subobj_labels = <<>>
    /\ files \in IndexFiles
    /\ pcIndex = "start"
    /\ spots_zyx_radii_pxl = <<>>
    /\ IdleSlices
    /\ IdleMask
    /\ IdleCoordTables
    /\ IdleNorm
    /\ IdleGop
    /\ IdleFit
    /\ IdleDet
    /\ IdleFrame
    /\ IdleLoad

IndexAggregatedSegm ==
    /\ pcIndex = "start"
    /\ \E r \in {index_aggregated_segm_into_input_lab(files, lab,
                    aggregated_segm, aggregated_lab, x_slice_idxs,
                    keep_objects_touching_lab_intact)} :
          /\ files' = r.files
          /\ aggregated_segm' = r.aggregated_segm
          /\ IF r.error # ""
             THEN /\ pcIndex' = r.error
                  /\ UNCHANGED subobj_labels
             ELSE /\ pcIndex' = "returned"
                  /\ subobj_labels' = r.subobj_labels
    /\ UNCHANGED keep_objects_touching_lab_intact
    /\ UNCHANGED <<varsCore, varsNorm, varsGop, varsFit, varsDet, varsFrame,
                   varsLoad>>

NextIndex == IndexAggregatedSegm

SpecIndex == InitIndex /\ [][NextIndex]_vars

-----------------------------------------------------------------------------
(* C21: no operation of the core performs file I/O                         *)

\* C21: scattering an aggregated segmentation back to the input frame with
\* index_aggregated_segm_into_input_lab leaves the file system unchanged:
\* no file is created or written.
C21_NoFileIO == [][files' = files]_vars

=============================================================================
